---- MODULE Spec2Model ----
(***************************************************************************)
(* A model of koizuka/scraper: the HTTP Session (session.go), the browser  *)
(* backed ChromeSession (chrome.go), the artifact store they record to and *)
(* replay from, and the unified action sequencer (unified actions).        *)
(*                                                                         *)
(* The commands are pure operators over a "world" record (the Session      *)
(* fields, the session directory on disk, the browser's loaded page and    *)
(* the outputs of the command just run); the actions of the specification  *)
(* apply them to the state variables.                                      *)
(***************************************************************************)
EXTENDS Integers, Sequences, FiniteSets, TLC

\* ------------------------------------------------------------------ bounds

\* Commands start while the invocation counter is below MaxCount.
MaxCount == 2

\* How many commands of one run may meet a failing disk.
MaxFaults == 1

\* The longest action sequence handed to one call of Run.
MaxRun == 3

\* The longest script recorded and then replayed.
MaxScript == 3

\* The goroutines that call into one session concurrently.
NumProcs == 2

\* How many calls a caller makes on one form.
MaxFormOps == 2

\* How many times a caller types before submitting.
MaxKeys == 3

\* How many nodes a selector matches at most.
MaxNodes == 3

\* The walk positions and the coefficients of :nth-of-type(an+b) tried.
MaxWalk == 2
MaxCoef == 2

\* The longest link text escaped and the most meta elements in a head.
MaxText == 4
MaxMetas == 2

\* The most meta refreshes a caller lets GetPageMaxRedirect follow.
MaxHops == 3

\* ------------------------------------------------- the web site (fixtures)

NoURL == "none"
NoFile == "nofile"
NoErr == "nil"
DefaultBlankURL == "about:blank"

\* A nil *Page, and an absent metadata sidecar.
NoPage == [body |-> "none", url |-> NoURL]
NoMeta == [url |-> NoURL, content_type |-> "none"]

\* The site's URLs: uA, uB, uC, uF1, uF2, uG, uH, uLoop answer with a page, uR
\* answers with an HTTP redirect to uA, uBad with status 404, any other does
\* not answer.

\* What the server answers to a request for u: the transport outcome, the
\* URL after redirects (response.Request.URL) and the body.
Serve(u) ==
    CASE u = "uA"   -> [status |-> "ok",       final |-> "uA",   body |-> "pA"]
      [] u = "uB"   -> [status |-> "ok",       final |-> "uB",   body |-> "pB"]
      [] u = "uC"   -> [status |-> "ok",       final |-> "uC",   body |-> "pC"]
      [] u = "uR"   -> [status |-> "ok",       final |-> "uA",   body |-> "pA"]
      [] u = "uF1"  -> [status |-> "ok",       final |-> "uF1",  body |-> "pF1"]
      [] u = "uF2"  -> [status |-> "ok",       final |-> "uF2",  body |-> "pF2"]
      [] u = "uG"   -> [status |-> "ok",       final |-> "uG",   body |-> "pG"]
      [] u = "uH"   -> [status |-> "ok",       final |-> "uH",   body |-> "pH"]
      [] u = "uLoop" -> [status |-> "ok",      final |-> "uLoop", body |-> "pLoop"]
      [] u = "uBad" -> [status |-> "notfound", final |-> "uBad", body |-> "pErr"]
      [] OTHER      -> [status |-> "down",     final |-> u,      body |-> "pErr"]

\* The DOM of each body:
\*   pA   <h1>, <a id=next href=uB>Next</a>,
\*        <form action=uC method=post><input name=user><input type=submit id=go></form>
\*   pB   <meta http-equiv=refresh content="0;URL=uC">, <h1>
\*   pC   <h1>, <button id=orphan> outside any form
\*   pG   <h1>, <a href=uA>More</a>, <a href=uC>More</a>,
\*        <a id=next href=uB>Next</a>,
\*        <form action=uA><input name=user><input type=submit id=go1></form>,
\*        <form id=second action=uC><input name=user> <input type=radio
\*        name=color value=red> <input type=radio name=color value=green>
\*        <input type=submit id=go2></form>
\*   pH   <meta http-equiv=refresh content="0;URL=uB">, <h1>
\*   pLoop <meta http-equiv=refresh content="0;URL=uLoop">, <h1>: it
\*        refreshes to itself
\*   pErr <h1> (the 404 page), pBlank the empty about:blank document
\*   pF1, pF2 one form each, described by Markup
\* refresh: the meta refresh target; elements: the selectors that match one
\* node; href: the anchors' targets; text: the anchors' texts; submits: the
\* submit controls and the selector Click builds for their enclosing form
\* (form[name=..], form#id, or form when it has neither); forms: each
\* form's action.
Doc(b) ==
    CASE b = "pA" ->
           [refresh  |-> NoURL,
            elements |-> {"h1", "a#next", "#go", "input[name=user]", "form"},
            href     |-> [s \in {"a#next"} |-> "uB"],
            text     |-> [t \in {"Next"} |-> "a#next"],
            submits  |-> [s \in {"#go"} |-> "form"],
            forms    |-> [f \in {"form"} |-> [action |-> "uC"]]]
      [] b = "pB" ->
           [refresh  |-> "uC",
            elements |-> {"h1"},
            href     |-> <<>>,
            text     |-> <<>>,
            submits  |-> <<>>,
            forms    |-> <<>>]
      [] b = "pG" ->
           [refresh  |-> NoURL,
            elements |-> {"h1", "a#next", "#go1", "#go2", "form#second",
                         "input[name=user]"},
            href     |-> [s \in {"a#next"} |-> "uB"],
            text     |-> [t \in {"Next"} |-> "a#next"],
            submits  |-> [s \in {"#go1", "#go2"} |->
                             IF s = "#go1" THEN "form" ELSE "form#second"],
            forms    |-> [f \in {"form#second"} |-> [action |-> "uC"]]]
      [] b \in {"pH", "pLoop"} ->
           [refresh  |-> IF b = "pH" THEN "uB" ELSE "uLoop",
            elements |-> {"h1"},
            href     |-> <<>>,
            text     |-> <<>>,
            submits  |-> <<>>,
            forms    |-> <<>>]
      [] b = "pC" ->
           [refresh  |-> NoURL,
            elements |-> {"h1", "#orphan"},
            href     |-> <<>>,
            text     |-> <<>>,
            submits  |-> [s \in {"#orphan"} |-> NoURL],
            forms    |-> <<>>]
      [] OTHER ->
           [refresh  |-> NoURL,
            elements |-> IF b = "pErr" THEN {"h1"} ELSE {},
            href     |-> <<>>,
            text     |-> <<>>,
            submits  |-> <<>>,
            forms    |-> <<>>]

\* The selectors that match several nodes of a body, the first of them an
\* anchor: on pG a matches the three anchors.  (The anchor text More, on
\* two anchors, and the selector form, matching two forms, are no keys of
\* text and of Markup, which hold what matches one node.)
Many(b) == IF b = "pG" THEN {"a"} ELSE {}

\* The action of the form that encloses a submit control of a body.
Enclosing(b, control) ==
    CASE b = "pA" /\ control = "#go" -> "uC"
      [] b = "pG" /\ control = "#go1" -> "uA"
      [] b = "pG" /\ control = "#go2" -> "uC"
      [] OTHER -> NoURL

\* The URLs, selectors, anchor texts and typed values a script may use.
NavURLs == {"uA", "uB", "uR", "uDown"}
ClickSelectors == {"a#next", "#go", "#orphan", "#none"}
WaitSelectors == {"h1", "#none"}
KeySelectors == {"input[name=user]", "input[name=zip]"}
AnchorTexts == {"Next", "Nope"}
KeyValues == {"v1"}
FormSelectors == {"form"}

\* What a write to the session directory does during one command: it
\* succeeds, or the body file, or the metadata sidecar, cannot be written.
DiskOutcomes == {"ok", "bodyFail", "metaFail"}

\* The artifact slots of the session directory: <n>.html and <n>.html.meta.
\* A command may consume two slots past the last counter it starts at, a
\* Run or a group of goroutines one slot per action or goroutine.
Slots == 1..(MaxCount + MaxRun + NumProcs + 2)

\* ------------------------------------------------------------- the world

\* The file names of slot n, and the file name of no error.
HtmlFile(n) == [slot |-> n, ext |-> "html"]
MetaFile(n) == [slot |-> n, ext |-> "html.meta"]
NoErrFile == [slot |-> 0, ext |-> ""]

\* The empty map[string]string (a nil map reads the same).
EmptyMap == [s \in {} |-> "v1"]

\* The params argument of SubmitForm: nil, or a map.
NilParams == [nil |-> TRUE, map |-> EmptyMap]
MapParams(m) == [nil |-> FALSE, map |-> m]

\* No form was posted by this command.
NoPost == [posted |-> FALSE, fields |-> EmptyMap]

\* NewSession (and NewChromeOpt for the browser backend) over an empty
\* session directory; the trailing fields are the outputs of one command.
NewWorld(b, save) ==
    [backend         |-> b,
     NotUseNetwork   |-> FALSE,
     SaveToFile      |-> save,
     invokeCount     |-> 0,
     currentPage     |-> NoPage,
     pendingFormData |-> EmptyMap,
     files           |-> [n \in Slots |-> NoFile],
     metas           |-> [n \in Slots |-> NoMeta],
     browserPage     |-> [body |-> "pBlank", url |-> DefaultBlankURL],
     err             |-> NoErr,
     errFile         |-> NoErrFile,
     net             |-> 0,
     loaded          |-> {},
     wrote           |-> {},
     slept           |-> 0,
     post            |-> NoPost,
     resp            |-> NoPage]

\* The world as a command finds it: the outputs of the previous one cleared.
Begin(w) ==
    [w EXCEPT !.err = NoErr, !.errFile = NoErrFile, !.net = 0, !.loaded = {},
              !.wrote = {}, !.slept = 0, !.post = NoPost, !.resp = NoPage]

\* return nil, err
Fail(w, e) == [w EXCEPT !.err = e, !.resp = NoPage]

\* return nil, RetryAndRecordError{filename}, filename being <n>.html
RetryAndRecord(w, n) ==
    [w EXCEPT !.err = "RetryAndRecord", !.errFile = HtmlFile(n), !.resp = NoPage]

\* ------------------------------------------------------ the artifact store

\* os.WriteFile(filename, body) of the body artifact <n>.html
WriteBody(w, n, body) == [w EXCEPT !.files[n] = body, !.wrote = @ \cup {n}]

\* savePageMetadata(filename, metadata): the sidecar <n>.html.meta
savePageMetadata(w, n, metadata) == [w EXCEPT !.metas[n] = metadata]

\* loadPageMetadata(filename) fails when the sidecar cannot be read
MetaMissing(w, n) == w.metas[n] = NoMeta

\* ------------------------------------------------------------------ forms

\* An attribute the tag does not carry.
NoAttr == "<absent>"

\* FormElement.Value == nil
NilValue == [Value |-> "<nil>", Label |-> "<nil>"]

\* &AvailableValue{Value: v, Label: l}
AvailableValue(v, l) == [Value |-> v, Label |-> l]

\* An <input> tag: its name, type and value attributes, whether it carries
\* checked, and the text of the <label for=...> of its id ("" without one).
Input(name, type, value, checked, label) ==
    [name |-> name, type |-> type, value |-> value, checked |-> checked, label |-> label]

\* An <option> tag: its value attribute, its text, whether it carries selected.
Option(value, text, selected) == [value |-> value, text |-> text, selected |-> selected]

\* A <select> tag: its name attribute and its options in document order.
SelectTag(name, options) == [name |-> name, options |-> options]

\* The forms of each body, by the selector that finds them:
\*   pA   <input name=user>, <input type=submit id=go>
\*   pG   form#second: <input name=user>, a radio group color, a submit
\*   pF1  a text, a hidden, two checkboxes, two radio groups, a submit
\*        without a name, two images, a select with a placeholder option and
\*        a selected one, a select with nothing selected
\*   pF2  two checkboxes sharing a name, an image typed in upper case, a
\*        select whose options carry no value, a select whose selected
\*        option carries no value, a select with one label on two options
Markup(b) ==
    CASE b = "pA" ->
           [f \in {"form"} |->
              [action |-> "uC", method |-> "post",
               inputs |-> <<Input("user", NoAttr, NoAttr, FALSE, ""),
                            Input(NoAttr, "submit", NoAttr, FALSE, "")>>,
               selects |-> <<>>]]
      [] b = "pG" ->
           [f \in {"form#second"} |->
              [action |-> "uC", method |-> "post",
               inputs |-> <<Input("user", NoAttr, NoAttr, FALSE, ""),
                            Input("color", "radio", "red", FALSE, "Red"),
                            Input("color", "radio", "green", FALSE, "Green"),
                            Input(NoAttr, "submit", NoAttr, FALSE, "")>>,
               selects |-> <<>>]]
      [] b = "pF1" ->
           [f \in {"form"} |->
              [action |-> "uC", method |-> NoAttr,
               inputs |-> <<Input("user", NoAttr, NoAttr, FALSE, ""),
                            Input("token", "hidden", "t0", FALSE, ""),
                            Input("agree", "checkbox", "yes", FALSE, "Agree"),
                            Input("news", "checkbox", "1", TRUE, ""),
                            Input("color", "radio", "red", FALSE, "Red"),
                            Input("color", "radio", NoAttr, FALSE, "Any"),
                            Input("size", "radio", "s", FALSE, ""),
                            Input("size", "radio", "m", TRUE, ""),
                            Input(NoAttr, "submit", "Send", FALSE, ""),
                            Input("go", "image", NoAttr, FALSE, ""),
                            Input("go2", "image", NoAttr, FALSE, "")>>,
               selects |-> <<SelectTag("pref", <<Option(NoAttr, "--", FALSE),
                                                 Option("a", "A", FALSE),
                                                 Option("b", "B", TRUE)>>),
                             SelectTag("lang", <<Option("en", "English", FALSE),
                                                 Option("fr", "French", FALSE)>>)>>]]
      [] b = "pF2" ->
           [f \in {"form"} |->
              [action |-> "uC", method |-> "post",
               inputs |-> <<Input("tags", "checkbox", "a", TRUE, "A"),
                            Input("tags", "checkbox", "b", FALSE, "B"),
                            Input("btn", "IMAGE", NoAttr, FALSE, "")>>,
               selects |-> <<SelectTag("empty", <<Option(NoAttr, "x", FALSE)>>),
                             SelectTag("city", <<Option("osaka", "Osaka", FALSE),
                                                 Option(NoAttr, "Tokyo", TRUE)>>),
                             SelectTag("dup", <<Option("1", "L", FALSE),
                                                Option("2", "L", FALSE)>>)>>]]
      [] OTHER -> <<>>

\* strings.ToLower on the type attributes and the charsets the pages carry
ToLower(t) ==
    CASE t = "IMAGE" -> "image"
      [] t = "Shift_JIS" -> "shift_jis"
      [] OTHER -> t

\* m[name] = element, for a Go map m
Put(elements, name, element) ==
    [n \in DOMAIN elements \cup {name} |-> IF n = name THEN element ELSE elements[n]]

\* &FormElement{Type: t, Name: name}: no value, AvailableValues nil.  A
\* non-nil AvailableValues always holds an element, so <<>> stands for nil.
NewFormElement(t, name) ==
    [Type |-> t, Name |-> name, Value |-> NilValue, AvailableValues |-> <<>>]

\* Page.Form, the body of the loop over the inputs, for one input.
FormInput(elements, s) ==
    IF s.name = NoAttr THEN elements
    ELSE LET t == IF s.type = NoAttr THEN "text" ELSE s.type
             value == IF s.value # NoAttr THEN s.value
                      ELSE IF ToLower(t) = "radio" THEN "on" ELSE ""
             element == IF s.name \in DOMAIN elements THEN elements[s.name]
                        ELSE NewFormElement(t, s.name)
             val == AvailableValue(value, s.label)
             set == CASE ToLower(t) \in {"submit", "hidden", "button", "text", "email",
                                         "password", "image"} ->
                           [element EXCEPT !.Value = val]
                      [] ToLower(t) = "checkbox" ->
                           [element EXCEPT !.AvailableValues = <<val>>,
                                           !.Value = IF s.checked THEN val ELSE @]
                      [] ToLower(t) = "radio" ->
                           [element EXCEPT !.AvailableValues = Append(@, val),
                                           !.Value = IF s.checked THEN val
                                                     ELSE IF @ = NilValue THEN val ELSE @]
                      [] OTHER -> element
         IN  Put(elements, s.name, set)

RECURSIVE FormInputs(_, _, _)
\* Page.Form, the loop over the inputs in document order.
FormInputs(elements, inputs, i) ==
    IF i > Len(inputs) THEN elements
    ELSE FormInputs(FormInput(elements, inputs[i]), inputs, i + 1)

RECURSIVE FormOptions_NoDefault(_, _, _)
\* The loop over the options, were no option taken by default.
FormOptions_NoDefault(element, options, j) ==
    IF j > Len(options) THEN element
    ELSE LET o == options[j]
             val == AvailableValue(o.value, o.text)
             added == [element EXCEPT !.AvailableValues = Append(@, val)]
             chosen == IF o.selected THEN [added EXCEPT !.Value = val] ELSE added
         IN  IF o.value = NoAttr THEN FormOptions_NoDefault(element, options, j + 1)
             ELSE FormOptions_NoDefault(chosen, options, j + 1)

RECURSIVE FormOptions(_, _, _)
\* Page.Form, the loop over the options of one select: an option without
\* a value attribute is passed over, selected or not.
FormOptions(element, options, j) ==
    IF j > Len(options) THEN element
    ELSE LET o == options[j]
             val == AvailableValue(o.value, o.text)
             added == [element EXCEPT !.AvailableValues = Append(@, val)]
             chosen == IF o.selected THEN [added EXCEPT !.Value = val] ELSE added
             first == IF chosen.Value = NilValue THEN [chosen EXCEPT !.Value = val]
                      ELSE chosen
         IN  IF o.value = NoAttr THEN FormOptions(element, options, j + 1)
             ELSE FormOptions(first, options, j + 1)

RECURSIVE FormSelects(_, _, _)
\* Page.Form, the loop over the selects in document order.
FormSelects(elements, selects, i) ==
    IF i > Len(selects) THEN elements
    ELSE LET s == selects[i]
             element == IF s.name \in DOMAIN elements THEN elements[s.name]
                        ELSE NewFormElement("select", s.name)
         IN  IF s.name = NoAttr THEN FormSelects(elements, selects, i + 1)
             ELSE FormSelects(Put(elements, s.name, FormOptions(element, s.options, 1)),
                              selects, i + 1)

\* A form nobody built.
NoElements == [n \in {} |-> NewFormElement("text", n)]
NilForm == [Action |-> NoURL, Method |-> "get", Elements |-> NoElements]

\* What a method of Form returns: the form as it leaves it, and its error.
FormResult(f, e) == [form |-> f, err |-> e]

\* Page.Form
PageForm(page, selector) ==
    IF selector \notin DOMAIN Markup(page.body) THEN FormResult(NilForm, "FormNotFound")
    ELSE LET tag == Markup(page.body)[selector]
         IN  FormResult([Action   |-> tag.action,
                         Method   |-> IF tag.method = NoAttr THEN "get" ELSE tag.method,
                         Elements |-> FormSelects(FormInputs(NoElements, tag.inputs, 1),
                                                  tag.selects, 1)],
                        NoErr)

\* The first available value whose Value is value; 0 when there is none.
FindValue(element, value) ==
    LET hits == {i \in 1..Len(element.AvailableValues) :
                    element.AvailableValues[i].Value = value}
    IN  IF hits = {} THEN 0 ELSE CHOOSE i \in hits : \A j \in hits : i <= j

\* The first available value whose Label is label; 0 when there is none.
FindLabel(element, label) ==
    LET hits == {i \in 1..Len(element.AvailableValues) :
                    element.AvailableValues[i].Label = label}
    IN  IF hits = {} THEN 0 ELSE CHOOSE i \in hits : \A j \in hits : i <= j

\* A Set that takes any value for an enumerated element too.
Set_TakesAnyValue(f, name, value) ==
    IF name \notin DOMAIN f.Elements THEN FormResult(f, "FormElementNotFound")
    ELSE FormResult([f EXCEPT !.Elements[name].Value = AvailableValue(value, "")], NoErr)

\* Form.Set
Set(f, name, value) ==
    IF name \notin DOMAIN f.Elements THEN FormResult(f, "FormElementNotFound")
    ELSE LET element == f.Elements[name]
         IN  IF element.AvailableValues = <<>>
             THEN FormResult([f EXCEPT !.Elements[name].Value = AvailableValue(value, "")],
                             NoErr)
             ELSE IF FindValue(element, value) = 0
             THEN FormResult(f, "ValueNotAvailable")
             ELSE FormResult([f EXCEPT !.Elements[name].Value =
                                 element.AvailableValues[FindValue(element, value)]], NoErr)

\* Form.SetForce
SetForce(f, name, value) ==
    IF name \in DOMAIN f.Elements THEN Set(f, name, value)
    ELSE FormResult([f EXCEPT !.Elements =
                        Put(@, name, [Type |-> "hidden", Name |-> name,
                                      Value |-> AvailableValue(value, ""),
                                      AvailableValues |-> <<>>])], NoErr)

\* Form.ValueByLabel: the value found, and the error.
ValueByLabel(f, name, label) ==
    IF name \notin DOMAIN f.Elements THEN [value |-> "", err |-> "FormElementNotFound"]
    ELSE LET element == f.Elements[name]
         IN  IF element.AvailableValues = <<>> THEN [value |-> "", err |-> "NotASelection"]
             ELSE IF FindLabel(element, label) = 0
             THEN [value |-> "", err |-> "LabelNotFound"]
             ELSE [value |-> element.AvailableValues[FindLabel(element, label)].Value,
                   err |-> NoErr]

\* A SetByLabel that hands the label itself to Set.
SetByLabel_SetsLabel(f, name, label) ==
    LET v == ValueByLabel(f, name, label)
    IN  IF v.err # NoErr THEN FormResult(f, v.err)
        ELSE FormResult([f EXCEPT !.Elements[name].Value = AvailableValue(label, label)],
                        NoErr)

\* Form.SetByLabel
SetByLabel(f, name, label) ==
    LET v == ValueByLabel(f, name, label)
    IN  IF v.err # NoErr THEN FormResult(f, v.err) ELSE Set(f, name, v.value)

\* Form.Unset
Unset(f, name) ==
    IF name \notin DOMAIN f.Elements THEN FormResult(f, "FormElementNotFound")
    ELSE FormResult([f EXCEPT !.Elements[name].Value = NilValue], NoErr)

\* Form.Select
Select(f, name, index) ==
    IF name \notin DOMAIN f.Elements THEN FormResult(f, "FormElementNotFound")
    ELSE LET element == f.Elements[name]
         IN  IF index < 0 \/ index >= Len(element.AvailableValues)
             THEN FormResult(f, "SelectOutOfRange")
             ELSE FormResult([f EXCEPT !.Elements[name].Value =
                                 element.AvailableValues[index + 1]], NoErr)

\* Form.Check
Check(f, name) == Select(f, name, 0)

\* Form.Uncheck
Uncheck(f, name) == Unset(f, name)

\* The key function of Session.SubmitOpt: name.x, name.y, or the bare
\* member for an image without a name.
ImageKey(name, member) == IF name = "" THEN member ELSE name \o "." \o member

\* Session.SubmitOpt, the map m it posts.  No element's name has the form
\* of another's image key here, so the order of the range does not show.
SubmitValues(f, imageId) ==
    LET els == f.Elements
        plain == {n \in DOMAIN els : els[n].Value # NilValue /\ els[n].Type # "image"}
        images == {n \in DOMAIN els : /\ els[n].Value # NilValue
                                      /\ els[n].Type = "image"
                                      /\ (imageId = "" \/ els[n].Name = imageId)}
        keys == plain \cup {ImageKey(n, "x") : n \in images}
                      \cup {ImageKey(n, "y") : n \in images}
    IN  [k \in keys |-> IF k \in plain THEN els[k].Value.Value ELSE "0"]

\* ----------------------------------------------------------- HTTP session

\* Response.PageOpt: the parsed page; BaseUrl is the response's request URL.
PageOpt(resp) == [body |-> resp.body, url |-> resp.url]

\* Page.MetaRefresh
MetaRefresh(page) == Doc(page.body).refresh

\* Session.invoke, the live branch: send, follow redirects, check the
\* status, read the body and, with SaveToFile, save the artifact.
invokeLive(w, n, reqUrl, disk) ==
    LET r == Serve(reqUrl)
        w1 == [w EXCEPT !.net = @ + 1]
    IN  IF r.status = "down" THEN Fail(w1, "RequestError")
        ELSE IF r.status # "ok" THEN Fail(w1, "ResponseError")
        ELSE IF ~w.SaveToFile THEN [w1 EXCEPT !.resp = [body |-> r.body, url |-> r.final]]
        ELSE IF disk = "bodyFail" THEN Fail(w1, "WriteError")
        ELSE IF disk = "metaFail" THEN Fail(WriteBody(w1, n, r.body), "WriteError")
        ELSE [savePageMetadata(WriteBody(w1, n, r.body), n,
                               [url |-> r.final, content_type |-> "text/html"])
                EXCEPT !.resp = [body |-> r.body, url |-> r.final]]

\* A variant of invokeReplay that does not restore the saved URL.
invokeReplay_ForgetsURL(w, n) ==
    IF w.files[n] = NoFile THEN RetryAndRecord(w, n)
    ELSE IF MetaMissing(w, n) THEN RetryAndRecord(w, n)
    ELSE [w EXCEPT !.loaded = @ \cup {n},
                   !.resp = [body |-> w.files[n], url |-> DefaultBlankURL]]

\* A variant of invokeReplay that tolerates an absent sidecar.
invokeReplay_TolerateNoMeta(w, n) ==
    IF w.files[n] = NoFile THEN RetryAndRecord(w, n)
    ELSE [w EXCEPT !.loaded = @ \cup {n},
                   !.resp = [body |-> w.files[n], url |-> w.metas[n].url]]

\* Session.invoke, the replay branch: load the body and the sidecar of the
\* counter's slot; the saved URL replaces the request's.
invokeReplay(w, n) ==
    IF w.files[n] = NoFile THEN RetryAndRecord(w, n)
    ELSE IF MetaMissing(w, n) THEN RetryAndRecord(w, n)
    ELSE [w EXCEPT !.loaded = @ \cup {n},
                   !.resp = [body |-> w.files[n], url |-> w.metas[n].url]]

\* A variant of invoke that counts live requests only.
invoke_CountLiveOnly(w, reqUrl, disk) ==
    LET n == w.invokeCount + 1
    IN  IF ~w.NotUseNetwork THEN invokeLive([w EXCEPT !.invokeCount = n], n, reqUrl, disk)
        ELSE invokeReplay(w, n)

\* Session.invoke: the counter is incremented first, then the I/O happens.
invoke(w, reqUrl, disk) ==
    LET n == w.invokeCount + 1
        w1 == [w EXCEPT !.invokeCount = n]
    IN  IF ~w.NotUseNetwork THEN invokeLive(w1, n, reqUrl, disk)
        ELSE invokeReplay(w1, n)

\* Session.Get
Get(w, getUrl, disk) == invoke(w, getUrl, disk)

RECURSIVE GetPageMaxRedirect(_, _, _, _)
\* A variant of ApplyRefresh that follows one refresh more.
ApplyRefresh_OneMore(w, page, maxRedirect, disk) ==
    IF maxRedirect >= 0 /\ MetaRefresh(page) # NoURL
    THEN GetPageMaxRedirect(w, MetaRefresh(page), maxRedirect - 1, disk)
    ELSE [w EXCEPT !.currentPage = page, !.resp = page]

\* Session.ApplyRefresh: follow a meta refresh while hops remain, else the
\* page becomes the current page.
ApplyRefresh(w, page, maxRedirect, disk) ==
    IF maxRedirect > 0 /\ MetaRefresh(page) # NoURL
    THEN GetPageMaxRedirect(w, MetaRefresh(page), maxRedirect - 1, disk)
    ELSE [w EXCEPT !.currentPage = page, !.resp = page]

\* Session.GetPageMaxRedirect
GetPageMaxRedirect(w, getUrl, maxRedirect, disk) ==
    LET w1 == Get(w, getUrl, disk)
    IN  IF w1.err # NoErr THEN w1
        ELSE ApplyRefresh(w1, PageOpt(w1.resp), maxRedirect, disk)

\* Session.GetPage
GetPage(w, getUrl, disk) == GetPageMaxRedirect(w, getUrl, 1, disk)

\* Session.navigateAction (and Session.Navigate)
navigateAction(w, url, disk) ==
    LET w1 == GetPage(w, url, disk)
    IN  IF w1.err # NoErr THEN w1 ELSE [w1 EXCEPT !.currentPage = w1.resp]

\* Session.waitVisibleAction: a no-op for HTTP scraping
waitVisibleAction(w, selector) == w

\* Session.sendKeysAction (and Session.SendKeys): the value is kept for a
\* later submission.
sendKeysAction(w, selector, value) ==
    [w EXCEPT !.pendingFormData =
        [k \in DOMAIN @ \cup {selector} |-> IF k = selector THEN value ELSE @[k]]]

\* extractNameFromSelector: input[name=user] -> user, "" without [name=...]
extractNameFromSelector(selector) ==
    CASE selector = "input[name=user]" -> "user"
      [] selector = "input[name=zip]" -> "zip"
      [] selector = "[name=user]" -> "user"
      [] selector = "input[name=token]" -> "token"
      [] selector = "input[name=color]" -> "color"
      [] OTHER -> ""

\* The key a pending selector is submitted under.
FieldKey(selector) ==
    IF extractNameFromSelector(selector) # "" THEN extractNameFromSelector(selector)
    ELSE selector

\* The orders in which a range over a Go map may visit the keys.
Orders(keys) ==
    {o \in [1..Cardinality(keys) -> keys] : \A k \in keys : \E i \in DOMAIN o : o[i] = k}

\* One of them, for a range whose order does not show in the result.
RangeOrder(m) == CHOOSE o \in Orders(DOMAIN m) : TRUE

RECURSIVE ConvertEach(_, _, _, _)
\* submitUnified's loop over params: convertedParams[fieldName] = value,
\* the later of two selectors of one name overwriting the earlier.
ConvertEach(converted, params, order, i) ==
    IF i > Len(order) THEN converted
    ELSE ConvertEach(Put(converted, FieldKey(order[i]), params[order[i]]),
                     params, order, i + 1)

\* The converted parameters when the range visits the selectors in order.
ConvertParamsIn(params, order) == ConvertEach(EmptyMap, params, order, 1)

\* submitUnified's conversion of the selectors to field names.
ConvertParams(params) == ConvertParamsIn(params, RangeOrder(params))

\* Session.OpenURL and Session.FollowSelectionLink of one selected anchor
FollowSelectionLink(w, page, selector, disk) ==
    invoke(w, Doc(page.body).href[selector], disk)

\* Session.SubmitOpt: the map of the form's values is posted to its action
\* (Session.Encoding is nil, url.Values.Encode keeps every pair).
SubmitOpt(w, f, imageId, disk) ==
    [invoke(w, f.Action, disk) EXCEPT
        !.post = [posted |-> TRUE, fields |-> SubmitValues(f, imageId)]]

\* Session.Submit
Submit(w, f, disk) == SubmitOpt(w, f, "", disk)

RECURSIVE SetEach(_, _, _, _)
\* Session.FormAction's loop over params: the first failing Set ends it.
SetEach(f, params, order, i) ==
    IF i > Len(order) THEN FormResult(f, NoErr)
    ELSE LET r == Set(f, order[i], params[order[i]])
         IN  IF r.err # NoErr THEN r ELSE SetEach(r.form, params, order, i + 1)

\* A variant of FormAction that consumes a slot before it builds the form.
FormActionIn_CountsFirst(w, page, formSelector, params, order, disk) ==
    LET built == PageForm(page, formSelector)
        filled == SetEach(built.form, params, order, 1)
        w1 == [w EXCEPT !.invokeCount = @ + 1]
    IN  IF built.err # NoErr THEN Fail(w1, built.err)
        ELSE IF filled.err # NoErr THEN Fail(w1, filled.err)
        ELSE Submit(w, filled.form, disk)

\* Session.FormAction when the range visits the parameters in order.
FormActionIn(w, page, formSelector, params, order, disk) ==
    LET built == PageForm(page, formSelector)
        filled == SetEach(built.form, params, order, 1)
    IN  IF built.err # NoErr THEN Fail(w, built.err)
        ELSE IF filled.err # NoErr THEN Fail(w, filled.err)
        ELSE Submit(w, filled.form, disk)

\* Session.FormAction: Page.Form, Form.Set of every parameter, then
\* Session.Submit.
FormAction(w, page, formSelector, params, disk) ==
    FormActionIn(w, page, formSelector, params, RangeOrder(params), disk)

\* The deferred function of submitUnified: the pending form data is cleared.
ClearPending(w) == [w EXCEPT !.pendingFormData = EmptyMap]

\* Session.submitUnified after FormAction returned: on success the response
\* becomes the current page; the pending form data is cleared either way.
Submitted(w1) ==
    IF w1.err # NoErr THEN ClearPending(w1)
    ELSE ClearPending([w1 EXCEPT !.currentPage = PageOpt(w1.resp)])

\* Session.submitUnified when its two ranges, over the selectors and over
\* the converted parameters, visit them in these orders.
submitUnifiedIn(w, formSelector, params, selectors, names, disk) ==
    IF w.currentPage = NoPage THEN Fail(w, "NoCurrentPage")
    ELSE LET used == IF params.nil THEN w.pendingFormData ELSE params.map
         IN  Submitted(FormActionIn(w, w.currentPage, formSelector,
                                    ConvertParamsIn(used, selectors), names, disk))

\* Session.submitUnified
submitUnified(w, formSelector, params, disk) ==
    LET used == IF params.nil THEN w.pendingFormData ELSE params.map
    IN  submitUnifiedIn(w, formSelector, params, RangeOrder(used),
                        RangeOrder(ConvertParams(used)), disk)

\* Session.SubmitForm
SubmitForm(w, formSelector, params, disk) == submitUnified(w, formSelector, params, disk)

\* Session.Click (and Session.clickAction): an anchor is followed, a submit
\* control submits its enclosing form with the pending form data; of
\* several anchors FollowSelectionLink follows none.
Click(w, selector, disk) ==
    IF w.currentPage = NoPage THEN Fail(w, "NoCurrentPage")
    ELSE LET d == Doc(w.currentPage.body)
         IN  IF selector \in Many(w.currentPage.body) THEN Fail(w, "CountMismatch")
             ELSE IF selector \notin d.elements THEN Fail(w, "SelectorNotFound")
             ELSE IF selector \in DOMAIN d.href
             THEN LET w1 == FollowSelectionLink(w, w.currentPage, selector, disk)
                  IN  IF w1.err # NoErr THEN w1
                      ELSE [w1 EXCEPT !.currentPage = PageOpt(w1.resp)]
             ELSE IF selector \in DOMAIN d.submits /\ d.submits[selector] # NoURL
             THEN submitUnified(w, d.submits[selector], MapParams(w.pendingFormData), disk)
             ELSE Fail(w, "NotClickable")

\* Session.FollowAnchor: FollowAnchorText demands exactly one anchor with
\* the text.
FollowAnchor(w, text, disk) ==
    IF w.currentPage = NoPage THEN Fail(w, "NoCurrentPage")
    ELSE LET d == Doc(w.currentPage.body)
         IN  IF text \notin DOMAIN d.text THEN Fail(w, "CountMismatch")
             ELSE LET w1 == FollowSelectionLink(w, w.currentPage, d.text[text], disk)
                  IN  IF w1.err # NoErr THEN w1
                      ELSE [w1 EXCEPT !.currentPage = PageOpt(w1.resp)]

\* Session.savePageAction (and Session.SavePage): the current page's HTML
\* is written to the next slot; no metadata sidecar is written.
savePageAction(w, disk) ==
    IF w.currentPage = NoPage THEN Fail(w, "NoCurrentPage")
    ELSE LET n == w.invokeCount + 1
             w1 == [w EXCEPT !.invokeCount = n]
         IN  IF disk = "bodyFail" THEN Fail(w1, "WriteError")
             ELSE WriteBody(w1, n, w.currentPage.body)

\* Session.IsReplayMode
IsReplayMode(w) == w.NotUseNetwork

\* Session.sleepAction
sleepAction(w, duration) ==
    IF IsReplayMode(w) THEN w ELSE [w EXCEPT !.slept = @ + duration]

\* Session.GetCurrentURL: the URL, or "" with an error
GetCurrentURL(w) == IF w.currentPage = NoPage THEN "" ELSE w.currentPage.url

\* --------------------------------------------------------- browser session

\* What the browser shows after navigating to u: redirects are followed
\* and a 404 answer is displayed as a page.
BrowserLoad(u) == [body |-> Serve(u).body, url |-> Serve(u).final]

\* ChromeSession.loadSavedHTMLToBrowser: read the saved body, tolerate an
\* absent sidecar, write <n>.html.temp.html and load it from file://.
loadSavedHTMLToBrowser(w, n, disk) ==
    IF w.files[n] = NoFile THEN RetryAndRecord(w, n)
    ELSE IF disk = "bodyFail" THEN Fail(w, "TempFileError")
    ELSE [w EXCEPT !.loaded = @ \cup {n},
                   !.browserPage = [body |-> w.files[n], url |-> "file://"]]

\* ChromeSession.SaveHtml, the record branch: the browser's outer HTML is
\* always saved; a sidecar that cannot be written is only logged.
SaveHtmlRecord(w, n, disk) ==
    IF disk = "bodyFail" THEN Fail(w, "WriteError")
    ELSE LET w1 == WriteBody(w, n, w.browserPage.body)
         IN  IF disk = "metaFail" THEN w1
             ELSE savePageMetadata(w1, n, [url |-> w.browserPage.url,
                                           content_type |-> "text/html"])

\* ChromeSession.SaveHtml: the counter is incremented first.
SaveHtml(w, disk) ==
    LET n == w.invokeCount + 1
        w1 == [w EXCEPT !.invokeCount = n]
    IN  IF w.NotUseNetwork THEN loadSavedHTMLToBrowser(w1, n, disk)
        ELSE SaveHtmlRecord(w1, n, disk)

\* chromedp.Run(ctx, action, SaveHtml): SaveHtml runs only after the browser
\* action succeeded.
ThenSaveHtml(w, disk) == IF w.err # NoErr THEN w ELSE SaveHtml(w, disk)

\* chromedp.Navigate
BrowserNavigate(w, url) ==
    IF Serve(url).status = "down" THEN Fail([w EXCEPT !.net = @ + 1], "BrowserError")
    ELSE [w EXCEPT !.net = @ + 1, !.browserPage = BrowserLoad(url)]

\* chromedp.WaitVisible, chromedp.SendKeys and chromedp.Clear: they time
\* out when the selector matches nothing.
BrowserQuery(w, selector) ==
    IF selector \in Doc(w.browserPage.body).elements THEN w ELSE Fail(w, "BrowserError")

\* chromedp.Click: an anchor navigates to its target, a submit control
\* submits its form, any other element stays on the page.
BrowserClick(w, selector) ==
    LET d == Doc(w.browserPage.body)
    IN  IF selector \notin d.elements THEN Fail(w, "BrowserError")
        ELSE IF selector \in DOMAIN d.href
        THEN [w EXCEPT !.net = @ + 1, !.browserPage = BrowserLoad(d.href[selector])]
        ELSE IF selector \in DOMAIN d.submits /\ d.submits[selector] # NoURL
        THEN [w EXCEPT !.net = @ + 1,
                       !.browserPage = BrowserLoad(d.forms[d.submits[selector]].action)]
        ELSE w

\* A variant of ChromeSession.Navigate without the replay branch.
ChromeNavigate_AlwaysLive(w, url, disk) ==
    ThenSaveHtml(BrowserNavigate(w, url), disk)

\* ChromeSession.Navigate
ChromeNavigate(w, url, disk) ==
    IF w.NotUseNetwork THEN SaveHtml(w, disk)
    ELSE ThenSaveHtml(BrowserNavigate(w, url), disk)

\* ChromeSession.WaitVisible: in replay the saved page is loaded and the
\* element must exist in it.
ChromeWaitVisible(w, selector, disk) ==
    IF w.NotUseNetwork
    THEN LET w1 == SaveHtml(w, disk)
         IN  IF w1.err # NoErr THEN w1
             ELSE IF selector \in Doc(w1.browserPage.body).elements THEN w1
             ELSE Fail(w1, "NotVisibleInReplay")
    ELSE ThenSaveHtml(BrowserQuery(w, selector), disk)

\* A variant of ChromeSession.SendKeys that saves no artifact.
ChromeSendKeys_NoArtifact(w, selector, value, disk) ==
    IF w.NotUseNetwork THEN w ELSE BrowserQuery(w, selector)

\* ChromeSession.SendKeys
ChromeSendKeys(w, selector, value, disk) ==
    IF w.NotUseNetwork THEN SaveHtml(w, disk)
    ELSE ThenSaveHtml(BrowserQuery(w, selector), disk)

\* ChromeSession.Click
ChromeClick(w, selector, disk) ==
    IF w.NotUseNetwork THEN SaveHtml(w, disk)
    ELSE ThenSaveHtml(BrowserClick(w, selector), disk)

\* The submit controls ChromeSession.SubmitForm tries, in order:
\* input[type=submit], button[type=submit], button:not([type]), input[type=image]
SubmitSelectors(w, formSelector) ==
    LET d == Doc(w.browserPage.body)
        first == {s \in DOMAIN d.submits : d.submits[s] = formSelector}
    IN  <<IF first = {} THEN "#none" ELSE CHOOSE s \in first : TRUE, "#none", "#none", "#none">>

\* The Clear and SendKeys tasks that fill the form's fields.
FillTasks(w, params) ==
    IF \A sel \in DOMAIN params : sel \in Doc(w.browserPage.body).elements
    THEN w ELSE Fail(w, "BrowserError")

\* One attempt of ChromeSession.SubmitForm: fill, click, save.
SubmitAttempt(w, submitSelector, params, disk) ==
    LET w1 == FillTasks(w, params)
    IN  IF w1.err # NoErr THEN w1
        ELSE ThenSaveHtml(BrowserClick(w1, submitSelector), disk)

RECURSIVE SubmitAttempts(_, _, _, _, _)
\* The loop over the submit selectors: the first attempt that succeeds
\* ends it, a failed one leaves its effects behind.
SubmitAttempts(w, sels, i, params, disk) ==
    IF i > Len(sels) THEN Fail(w, "SubmitFailed")
    ELSE LET w1 == SubmitAttempt([w EXCEPT !.err = NoErr], sels[i], params, disk)
         IN  IF w1.err = NoErr THEN w1
             ELSE SubmitAttempts(w1, sels, i + 1, params, disk)

\* The last resort of ChromeSession.SubmitForm: Enter typed into one field.
SubmitByEnter(w, params, disk) ==
    IF DOMAIN params = {} THEN w
    ELSE LET w1 == FillTasks([w EXCEPT !.err = NoErr], params)
             w2 == IF w1.err # NoErr THEN w1
                   ELSE LET forms == Doc(w1.browserPage.body).forms
                        IN  IF DOMAIN forms = {} THEN w1
                            ELSE [w1 EXCEPT !.net = @ + 1,
                                    !.browserPage = BrowserLoad(
                                        forms[CHOOSE f \in DOMAIN forms : TRUE].action)]
             w3 == ThenSaveHtml(w2, disk)
         IN  IF w3.err = NoErr THEN w3 ELSE Fail(w3, "SubmitFailed")

\* ChromeSession.SubmitForm
ChromeSubmitForm(w, formSelector, params, disk) ==
    IF w.NotUseNetwork THEN SaveHtml(w, disk)
    ELSE LET w1 == SubmitAttempts(w, SubmitSelectors(w, formSelector), 1, params.map, disk)
         IN  IF w1.err = NoErr THEN w1 ELSE SubmitByEnter(w1, params.map, disk)

\* ChromeSession.FollowAnchor: click the anchor found by its text.
ChromeFollowAnchor(w, text, disk) ==
    IF w.NotUseNetwork THEN SaveHtml(w, disk)
    ELSE LET d == Doc(w.browserPage.body)
         IN  IF text \notin DOMAIN d.text THEN Fail(w, "BrowserError")
             ELSE ThenSaveHtml(BrowserClick(w, d.text[text]), disk)

\* ChromeSession.SavePage
ChromeSavePage(w, disk) == SaveHtml(w, disk)

\* ChromeSession.Sleep
ChromeSleep(w, duration) ==
    IF w.NotUseNetwork THEN w ELSE [w EXCEPT !.slept = @ + duration]

\* ChromeSession.GetCurrentURL: in replay the sidecar of the counter's
\* slot, live the browser's location; "" with an error.
ChromeGetCurrentURL(w) ==
    IF w.NotUseNetwork
    THEN IF w.invokeCount \in Slots /\ ~MetaMissing(w, w.invokeCount)
         THEN w.metas[w.invokeCount].url ELSE ""
    ELSE w.browserPage.url

\* ------------------------------------------------------ the unified actions

\* The commands of a script: the unified actions, and the session methods
\* SubmitForm, FollowAnchor and Get.  arg is the URL, selector or text; val
\* the typed value, or for SubmitForm the selector of the one explicit
\* parameter ("nil" for nil params); disk what the disk does meanwhile.
Cmd(op, arg, val, disk) == [op |-> op, arg |-> arg, val |-> val, disk |-> disk]

\* The params a SubmitForm command passes.
ParamsOf(c) ==
    IF c.val = "nil" THEN NilParams ELSE MapParams([s \in {c.val} |-> "v1"])

\* A variant of Sleep that pauses in replay as well.
Sleep_AlsoInReplay(w, duration) == [w EXCEPT !.slept = @ + duration]

\* Sleep (unified action) on the HTTP session: replay returns before the
\* session is reached.
Sleep(w, duration) ==
    IF IsReplayMode(w) THEN w ELSE sleepAction(w, duration)

\* UnifiedAction.Do on the HTTP session
DoHttp(w, c) ==
    CASE c.op = "Navigate"     -> navigateAction(w, c.arg, c.disk)
      [] c.op = "Get"          -> Get(w, c.arg, c.disk)
      [] c.op = "WaitVisible"  -> waitVisibleAction(w, c.arg)
      [] c.op = "SendKeys"     -> sendKeysAction(w, c.arg, c.val)
      [] c.op = "Click"        -> Click(w, c.arg, c.disk)
      [] c.op = "SubmitForm"   -> SubmitForm(w, c.arg, ParamsOf(c), c.disk)
      [] c.op = "FollowAnchor" -> FollowAnchor(w, c.arg, c.disk)
      [] c.op = "SavePage"     -> savePageAction(w, c.disk)
      [] c.op = "Sleep"        -> Sleep(w, 1)
      [] OTHER                 -> w

\* The commands of the browser session: DoNavigate, DoWaitVisible,
\* DoSendKeys, DoClick, DoSleep, and SubmitForm, FollowAnchor, SavePage.
DoChrome(w, c) ==
    CASE c.op = "Navigate"     -> ChromeNavigate(w, c.arg, c.disk)
      [] c.op = "WaitVisible"  -> ChromeWaitVisible(w, c.arg, c.disk)
      [] c.op = "SendKeys"     -> ChromeSendKeys(w, c.arg, c.val, c.disk)
      [] c.op = "Click"        -> ChromeClick(w, c.arg, c.disk)
      [] c.op = "SubmitForm"   -> ChromeSubmitForm(w, c.arg, ParamsOf(c), c.disk)
      [] c.op = "FollowAnchor" -> ChromeFollowAnchor(w, c.arg, c.disk)
      [] c.op = "SavePage"     -> ChromeSavePage(w, c.disk)
      [] c.op = "Sleep"        -> ChromeSleep(w, 1)
      [] OTHER                 -> w

\* One command run against the session it is given.
Do(w, c) == IF w.backend = "chrome" THEN DoChrome(Begin(w), c) ELSE DoHttp(Begin(w), c)

\* ---------------------------------------------------------------- Unmarshal

\* A matched node: its text and its href attribute.
Node(text, href) == [text |-> text, href |-> href]

\* The nodes a selection may hold: <a href="3">1</a>, <a>2</a>,
\* <a href="x">3</a>, <a href="#3">#3</a>.
Nodes == {Node("1", "3"), Node("2", NoAttr), Node("3", "x"), Node("#3", "#3")}

\* UnmarshalOption as the tags of a field give it: attr, re, ignore.
UnmarshalOption(attr, re, ignore) == [Attr |-> attr, Re |-> re, Ignore |-> ignore]

\* The destinations: scalars, an optional scalar, sequences, a struct with
\* the one field Value string, and such a struct with an Unmarshal method.
Kinds == {"int", "string", "*int", "[]int", "[]string", "Plain", "Custom"}

\* The element type of a pointer or slice type.
Elem(kind) ==
    CASE kind = "*int" -> "int" [] kind = "[]int" -> "int" [] kind = "[]string" -> "string"
      [] OTHER -> kind

\* A nil pointer, and a pointer to v.
NilPtr == [nil |-> TRUE, elem |-> 0]
PtrTo(v) == [nil |-> FALSE, elem |-> v]

\* reflect.Zero
Zero(kind) ==
    CASE kind = "int" -> 0
      [] kind = "string" -> ""
      [] kind = "*int" -> NilPtr
      [] kind \in {"[]int", "[]string"} -> <<>>
      [] OTHER -> [Value |-> ""]

\* What an extraction returns: its error and the destination as it left it.
Extracted(err, val) == [err |-> err, val |-> val]

\* j.Attr(opt.Attr) or j.Text(): whether the node yields a text, and the text.
Acquire_KeepsAll(node, opt) ==
    [ok |-> TRUE, text |-> IF opt.Attr = "" THEN node.text
                           ELSE IF node.href = NoAttr THEN "" ELSE node.href]

Acquire(node, opt) ==
    IF opt.Attr = "" THEN [ok |-> TRUE, text |-> node.text]
    ELSE IF node.href = NoAttr THEN [ok |-> FALSE, text |-> ""]
    ELSE [ok |-> TRUE, text |-> node.href]

\* re.FindStringSubmatch for the patterns #([0-9]+), #[0-9]+ and
\* (#)([0-9]+): the whole match and the captures, or nil without a match.
NoMatch == "<nomatch>"
FindStringSubmatch(re, s) ==
    IF s # "#3" THEN <<>>
    ELSE CASE re = "#[0-9]+" -> <<"#3">>
           [] re = "(#)([0-9]+)" -> <<"#3", "#", "3">>
           [] OTHER -> <<"#3", "3">>

\* The text of a node after attribute selection and regular expression,
\* NoMatch when the node is passed over.
TextOf(node, opt) ==
    LET got == Acquire(node, opt)
    IN  IF ~got.ok THEN NoMatch
        ELSE IF opt.Re = "" THEN got.text
        ELSE IF Len(FindStringSubmatch(opt.Re, got.text)) < 2 THEN NoMatch
        ELSE FindStringSubmatch(opt.Re, got.text)[2]

\* The check n != 1 in the loop over the nodes: a text the expression
\* matches with a number of captures other than one ends the extraction
\* with an error, before anything is stored.
ReMismatch(nodes, opt) ==
    /\ opt.Re # ""
    /\ \E i \in 1..Len(nodes) :
           /\ Acquire(nodes[i], opt).ok
           /\ Len(FindStringSubmatch(opt.Re, Acquire(nodes[i], opt).text)) \notin {0, 2}

RECURSIVE Selected(_, _, _)
\* The loop that collects selected: the pairs of the node and its text, for
\* the nodes from the i-th on that are not passed over, in document order.
Selected(nodes, opt, i) ==
    IF i > Len(nodes) THEN <<>>
    ELSE IF TextOf(nodes[i], opt) = NoMatch THEN Selected(nodes, opt, i + 1)
    ELSE <<[Sel |-> nodes[i], Text |-> TextOf(nodes[i], opt)]>> \o Selected(nodes, opt, i + 1)

\* fmt.Sscanf(stripComma(strings.TrimSpace(s)), "%d", &i): the error and i.
Sscanf(s) ==
    CASE s = "1" -> [err |-> NoErr, i |-> 1]
      [] s = "2" -> [err |-> NoErr, i |-> 2]
      [] s = "3" -> [err |-> NoErr, i |-> 3]
      [] OTHER   -> [err |-> "ParseNumber", i |-> 0]

\* The switch over the built-in types at the end of unmarshalValueOne and
\* of fillValue.
SetBuiltin(kind, s) ==
    IF kind = "string" THEN Extracted(NoErr, s)
    ELSE Extracted(Sscanf(s).err, Sscanf(s).i)

\* len(selected) != 1 is an error.
ExactlyOne_OrMore(selected) == Len(selected) >= 1
ExactlyOne(selected) == Len(selected) = 1

\* (*Custom).Unmarshal
CustomUnmarshal(s) == Extracted(NoErr, [Value |-> "custom:" \o s])

\* unmarshalValue of the field Value string, which has no tags, of a struct
\* found at sel.
PlainFields(sel) ==
    IF Len(sel) # 1 THEN Extracted("FieldError", [Value |-> ""])
    ELSE Extracted(NoErr, [Value |-> sel[1].text])

\* unmarshalValueOne
unmarshalValueOne(kind, sel, s, opt) ==
    IF kind = "Custom" THEN CustomUnmarshal(s)
    ELSE IF kind = "Plain"
    THEN IF opt.Re # "" THEN Extracted("ReOnStruct", Zero(kind))
         ELSE IF opt.Attr # "" THEN Extracted("AttrOnStruct", Zero(kind))
         ELSE PlainFields(<<sel>>)
    ELSE SetBuiltin(kind, s)

RECURSIVE unmarshalSlice(_, _, _, _, _)
\* unmarshalValue, the loop over a slice's elements: the first error ends it
\* and leaves the destination as it was.
unmarshalSlice(kind, selected, opt, i, rv) ==
    IF i > Len(selected) THEN Extracted(NoErr, rv)
    ELSE LET one == unmarshalValueOne(Elem(kind), selected[i].Sel, selected[i].Text, opt)
         IN  IF one.err # NoErr THEN Extracted("ElementError", <<>>)
             ELSE unmarshalSlice(kind, selected, opt, i + 1, Append(rv, one.val))

\* unmarshalValue, past the slice and pointer branches.
unmarshalSingle(kind, selected, opt) ==
    IF ~ExactlyOne(selected) THEN Extracted("LengthNot1", Zero(kind))
    ELSE IF opt.Ignore # "" /\ selected[1].Text = opt.Ignore THEN Extracted(NoErr, Zero(kind))
    ELSE unmarshalValueOne(kind, selected[1].Sel, selected[1].Text, opt)

\* unmarshalValue
unmarshalValue(kind, sel, opt) ==
    LET selected == Selected(sel, opt, 1)
    IN  IF ReMismatch(sel, opt) THEN Extracted("ReCaptures", Zero(kind))
        ELSE IF kind \in {"[]int", "[]string"} THEN unmarshalSlice(kind, selected, opt, 1, <<>>)
        ELSE IF kind = "*int"
        THEN IF Len(selected) = 0 THEN Extracted(NoErr, NilPtr)
             ELSE LET r == unmarshalSingle(Elem(kind), selected, opt)
                  IN  Extracted(r.err, PtrTo(r.val))
        ELSE unmarshalSingle(kind, selected, opt)

\* chromeUnmarshalStruct of a struct with the one field Value string, which
\* has no tags: the nodes the selector finds are queried again.
chromeUnmarshalStruct(found, opt) ==
    IF opt.Attr # "" THEN Extracted("AttrOnStruct", [Value |-> ""])
    ELSE PlainFields(found)

\* The nodes the selector resolved by resolveNthOfType for the i-th element
\* finds: the i-th of the nodes the field's selector finds.
QueryNthOfType(found, i) == IF i <= Len(found) THEN <<found[i]>> ELSE <<>>

\* fillValue, past the slice and pointer branches.
fillSingle(kind, found, selected, opt) ==
    IF ~ExactlyOne(selected) THEN Extracted("LengthNot1", Zero(kind))
    ELSE IF opt.Ignore # "" /\ selected[1] = opt.Ignore THEN Extracted(NoErr, Zero(kind))
    ELSE IF kind \in {"Plain", "Custom"} THEN chromeUnmarshalStruct(found, opt)
    ELSE SetBuiltin(kind, selected[1])

RECURSIVE fillSlice(_, _, _, _, _, _)
\* fillValue, the loop over a slice's elements: each is filled by fillValue
\* from its one text.
fillSlice(kind, found, selected, opt, i, rv) ==
    IF i > Len(selected) THEN Extracted(NoErr, rv)
    ELSE LET one == fillSingle(Elem(kind), QueryNthOfType(found, i), <<selected[i]>>, opt)
         IN  IF one.err # NoErr THEN Extracted("ElementError", <<>>)
             ELSE fillSlice(kind, found, selected, opt, i + 1, Append(rv, one.val))

\* fillValue
fillValue(kind, found, selected, opt) ==
    IF kind \in {"[]int", "[]string"} THEN fillSlice(kind, found, selected, opt, 1, <<>>)
    ELSE IF kind = "*int"
    THEN IF Len(selected) = 0 THEN Extracted(NoErr, NilPtr)
         ELSE LET r == fillSingle(Elem(kind), found, selected, opt)
              IN  Extracted(r.err, PtrTo(r.val))
    ELSE fillSingle(kind, found, selected, opt)

\* chromeUnmarshalStruct, for one field: the texts of the nodes found, those
\* without the attribute or not matching the expression passed over, then
\* fillValue.
FillField(kind, found, opt) ==
    LET selected == Selected(found, opt, 1)
    IN  IF ReMismatch(found, opt) THEN Extracted("ReCaptures", Zero(kind))
        ELSE fillValue(kind, found, [i \in 1..Len(selected) |-> selected[i].Text], opt)

\* A destination that appends to the sequence it holds.
Settled_Appends(old, kind, r) ==
    IF r.err = NoErr /\ kind \in {"[]int", "[]string"} THEN old \o r.val
    ELSE IF r.err = NoErr \/ kind = "*int" THEN r.val
    ELSE old

\* The destination after an extraction into a destination that held old:
\* value.Set of a sequence built anew, of the zero value or of the value
\* read replaces what it held; a pointer is set before the matches are
\* counted; an extraction that fails otherwise has written nothing.
Settled(old, kind, r) ==
    IF r.err = NoErr \/ (kind = "*int" /\ r.err # "ReCaptures") THEN r.val ELSE old

\* ------------------------------------------------------------ CSS selectors

\* A pseudo-class of a selector segment: none, :nth-of-type(odd),
\* :nth-of-type(even), :nth-of-type(N) (form "num", b = N),
\* :nth-of-type(an) and :nth-of-type(an+b) (form "an+b"), :nth-of-type(n+b)
\* (form "n+b"), and the other positional pseudo-classes, whose form is
\* their name.
Pseudo(form, a, b) == [form |-> form, a |-> a, b |-> b]
NoPseudo == Pseudo("", 0, 0)

\* One segment of a selector, the segments being separated by spaces.
Segment(tag, pseudo) == [tag |-> tag, pseudo |-> pseudo]

\* The regular expression of parseNthOfTypeParam matches a segment ending in
\* :nth-of-type(odd|even|N|an|an+b); the digits before n are not optional.
MatchesNthOfType(segment) == segment.pseudo.form \in {"odd", "even", "num", "an+b"}

\* parseNthOfTypeParam: the prefix and the coefficients a and b.
parseNthOfTypeParam(segment) ==
    IF ~MatchesNthOfType(segment) THEN [prefix |-> segment, a |-> 0, b |-> 0]
    ELSE [prefix |-> Segment(segment.tag, NoPseudo),
          a |-> CASE segment.pseudo.form \in {"odd", "even"} -> 2
                  [] segment.pseudo.form = "num" -> 0
                  [] OTHER -> segment.pseudo.a,
          b |-> CASE segment.pseudo.form = "odd" -> 1
                  [] segment.pseudo.form = "even" -> 0
                  [] OTHER -> segment.pseudo.b]

\* The position resolveNthOfType computes from a, b and the walk position n.
NthPosition(a, b, n) ==
    IF a = 0 /\ b = 0 THEN n + 1
    ELSE IF a = 0 \/ a = 1 THEN b
    ELSE n * a + (IF b < 1 THEN a ELSE b)

\* A segment with :nth-of-type(x) appended; x = 0 when nothing is appended.
Positioned(segment, x) == [segment |-> segment, nth |-> x]

\* resolveNthOfType: the selector is split at the spaces and the result is
\* formatted from the prefix of the last segment alone.
resolveNthOfType(cssSelector, n) ==
    LET p == parseNthOfTypeParam(cssSelector[Len(cssSelector)])
    IN  <<Positioned(p.prefix, NthPosition(p.a, p.b, n))>>

\* ------------------------------------------------------------ XPath text

\* The characters a link text is made of: a letter and the two quotes.
Chars == {"a", "'", "\""}

\* strings.Contains(text, c)
Contains(text, c) == \E i \in 1..Len(text) : text[i] = c

\* A quoted XPath string literal: the quote character and the content.
Literal(q, s) == [q |-> q, s |-> s]

\* strings.Split(text, sep)
RECURSIVE Split(_, _)
Split(text, sep) ==
    IF ~Contains(text, sep) THEN <<text>>
    ELSE LET i == CHOOSE j \in 1..Len(text) :
                      text[j] = sep /\ \A k \in 1..(j - 1) : text[k] # sep
         IN  <<SubSeq(text, 1, i - 1)>> \o Split(SubSeq(text, i + 1, Len(text)), sep)

\* The loop of escapeXPathText over the parts between single quotes: a
\* double-quoted single quote before every part but the first, then the part
\* in single quotes unless it is empty.
RECURSIVE ConcatParts(_, _)
ConcatParts(parts, i) ==
    IF i > Len(parts) THEN <<>>
    ELSE (IF i > 1 THEN <<Literal("\"", <<"'">>)>> ELSE <<>>)
         \o (IF parts[i] # <<>> THEN <<Literal("'", parts[i])>> ELSE <<>>)
         \o ConcatParts(parts, i + 1)

\* An escapeXPathText that always wraps the text in single quotes.
escapeXPathText_SingleQuoted(text) ==
    [concat |-> FALSE, args |-> <<Literal("'", text)>>]

\* escapeXPathText: the expression returned, as one literal or as the
\* arguments of concat(...).
escapeXPathText(text) ==
    IF ~Contains(text, "'") /\ ~Contains(text, "\"")
    THEN [concat |-> FALSE, args |-> <<Literal("'", text)>>]
    ELSE IF ~Contains(text, "'")
    THEN [concat |-> FALSE, args |-> <<Literal("'", text)>>]
    ELSE IF ~Contains(text, "\"")
    THEN [concat |-> FALSE, args |-> <<Literal("\"", text)>>]
    ELSE LET concatParts == ConcatParts(Split(text, "'"), 1)
         IN  [concat |-> Len(concatParts) # 1, args |-> concatParts]

\* -------------------------------------------------------- request headers

\* The headers of a request that the model follows.
HeaderNames == {"User-Agent", "Accept", "Upgrade-Insecure-Requests", "DNT", "Referer"}

\* The headers invoke gives a value to.
DefaultHeaderNames == {"User-Agent", "Accept", "Upgrade-Insecure-Requests", "DNT"}

\* The value invoke gives to a header; UserAgent is the session's field.
DefaultHeader(h, UserAgent) ==
    CASE h = "User-Agent" -> IF UserAgent = "" THEN "UserAgent_default" ELSE UserAgent
      [] h = "Accept" -> "text/html,*/*"
      [] OTHER -> "1"

\* Session.invoke, the headers of the request it sends: req.Header.Set for
\* each of the four, whatever the request carried; in replay nothing is sent.
invokeHeader(header, UserAgent, notUseNetwork) ==
    IF notUseNetwork THEN [h \in HeaderNames |-> "unsent"]
    ELSE [h \in HeaderNames |->
             IF h \in DefaultHeaderNames THEN DefaultHeader(h, UserAgent)
             ELSE header[h]]

\* ------------------------------------------------------------- encodings

\* The Content-Type values, of the response header and of a meta tag.
ContentTypes ==
    {"", "text/html", "text/html; charset=Shift_JIS", "text/html; charset=euc-jp",
     "text/html; charset=utf-8"}

\* charsetFromContentType: what follows charset=, or the empty string.
charsetFromContentType(contentType) ==
    CASE contentType = "text/html; charset=Shift_JIS" -> "Shift_JIS"
      [] contentType = "text/html; charset=euc-jp" -> "euc-jp"
      [] contentType = "text/html; charset=utf-8" -> "utf-8"
      [] OTHER -> ""

\* getEncodingFromCharset: the encodings the package knows, else nil.
getEncodingFromCharset(charset) ==
    CASE ToLower(charset) \in {"shift_jis", "windows-31j", "x-sjis", "sjis", "cp932", "shift-jis"} -> "ShiftJIS"
      [] ToLower(charset) = "euc-jp" -> "EUCJP"
      [] ToLower(charset) = "iso-2022-jp" -> "ISO2022JP"
      [] OTHER -> "nil"

\* The meta elements of a head: <meta charset=...>, <meta
\* http-equiv="Content-Type" content=...>, and any other meta.
MetaCharset(charset) == [kind |-> "charset", value |-> charset]
MetaContentType(content) == [kind |-> "http-equiv", value |-> content]
MetaOther == [kind |-> "other", value |-> ""]

\* getCharsetFromHead: Attr reads the first element of a selection, so the
\* charset attribute is that of the first meta of the head; the content of
\* the first http-equiv meta, if there is one, then replaces it.
getCharsetFromHead(head) ==
    LET charset == IF head # <<>> /\ head[1].kind = "charset" THEN head[1].value ELSE ""
        equivs == {i \in 1..Len(head) : head[i].kind = "http-equiv"}
    IN  IF equivs = {} THEN charset
        ELSE LET first == CHOOSE i \in equivs : \A j \in equivs : i <= j
             IN  charsetFromContentType(head[first].value)

\* A response: the Content-Type header, the head of the raw body, and
\* Encoding, which invoke copies from the session's Encoding field.
Response(ContentType, head, Encoding) ==
    [ContentType |-> ContentType, head |-> head, Encoding |-> Encoding]

\* Response.Body: the encoding the raw body is decoded with, "nil" for none.
Body(response) ==
    IF response.Encoding # "nil" THEN response.Encoding
    ELSE getEncodingFromCharset(charsetFromContentType(response.ContentType))

\* A PageOpt that does not look at the head.
PageOptEncoding_HeaderOnly(response) == response

\* Response.PageOpt, its first step: without an Encoding the head of the
\* raw body is read, and a known charset there becomes the Encoding.
PageOptEncoding(response) ==
    IF response.Encoding = "nil"
    THEN LET e == getEncodingFromCharset(getCharsetFromHead(response.head))
         IN  IF e # "nil" THEN [response EXCEPT !.Encoding = e] ELSE response
    ELSE response

\* ------------------------------------------------------------------ state

VARIABLES
    backend,          \* "http": a Session; "chrome": a ChromeSession over it
    NotUseNetwork,    \* Session.NotUseNetwork: replay mode
    SaveToFile,       \* Session.SaveToFile: record mode
    invokeCount,      \* Session.invokeCount
    currentPage,      \* Session.currentPage
    pendingFormData,  \* Session.pendingFormData
    files,            \* the session directory: slot -> body of <n>.html
    metas,            \* the session directory: slot -> content of <n>.html.meta
    browserPage,      \* the document loaded in the browser
    faults,           \* how many commands met a failing disk so far
    last,             \* what the command run last was and what it returned
    ran,              \* the last call of Run: its actions, what ran, its result
    rr,               \* the script being recorded, then replayed
    twin,             \* a browser session run in step with the HTTP session
    conc,             \* the goroutines inside the session's methods
    form,             \* the Form a caller holds, its last call and what was posted
    dest,             \* the destination of the last Unmarshal and its result
    calc              \* the last call of a helper function: its input and result

vars == <<backend, NotUseNetwork, SaveToFile, invokeCount, currentPage,
          pendingFormData, files, metas, browserPage, faults, last,
          ran, rr, twin, conc, form, dest, calc>>

\* What the scenarios other than the one specified leave alone.
NoRun == [actions |-> <<>>, log |-> <<>>, err |-> NoErr, gen |-> 0]
NoRR == [phase |-> "off", fresh |-> FALSE, script |-> <<>>, pages |-> <<>>, pos |-> 0]
NoTwin == [w |-> NewWorld("chrome", TRUE), delta |-> 0]
NoConc == [pc |-> <<>>, reg |-> <<>>, name |-> <<>>, mu |-> 0]
NoForm == [phase |-> "off"]
NoDest == [phase |-> "off"]
NoCalc == [fn |-> "none"]

\* The session the variables hold.
World ==
    [NewWorld(backend, SaveToFile) EXCEPT
        !.NotUseNetwork = NotUseNetwork, !.invokeCount = invokeCount,
        !.currentPage = currentPage, !.pendingFormData = pendingFormData,
        !.files = files, !.metas = metas, !.browserPage = browserPage]

\* The variables take the session w.
Become(w) ==
    /\ backend' = w.backend
    /\ NotUseNetwork' = w.NotUseNetwork
    /\ SaveToFile' = w.SaveToFile
    /\ invokeCount' = w.invokeCount
    /\ currentPage' = w.currentPage
    /\ pendingFormData' = w.pendingFormData
    /\ files' = w.files
    /\ metas' = w.metas
    /\ browserPage' = w.browserPage

\* What is remembered of a command: its operation, the error it returned
\* and the file the error names, how far it advanced the counter, the
\* requests it sent, the time it slept, the slots it loaded and wrote.
Outcome(c, pre, w) ==
    [op |-> c.op, err |-> w.err, errFile |-> w.errFile,
     delta |-> w.invokeCount - pre.invokeCount,
     net |-> w.net, slept |-> w.slept, loaded |-> w.loaded, wrote |-> w.wrote]

\* No command has run since the session was made or switched to replay.
NoOutcome(what) ==
    [op |-> what, err |-> NoErr, errFile |-> NoErrFile, delta |-> 0,
     net |-> 0, slept |-> 0, loaded |-> {}, wrote |-> {}]

\* A new session over an empty session directory.
InitSession ==
    /\ backend \in {"http", "chrome"}
    /\ SaveToFile \in BOOLEAN
    /\ backend = "chrome" => SaveToFile  \* the browser session never reads it
    /\ NotUseNetwork = FALSE
    /\ invokeCount = 0
    /\ currentPage = NoPage
    /\ pendingFormData = EmptyMap
    /\ files = [n \in Slots |-> NoFile]
    /\ metas = [n \in Slots |-> NoMeta]
    /\ browserPage = [body |-> "pBlank", url |-> DefaultBlankURL]
    /\ faults = 0
    /\ last = NoOutcome("NewSession")

Init ==
    /\ InitSession
    /\ ran = NoRun
    /\ form = NoForm
    /\ dest = NoDest
    /\ calc = NoCalc
    /\ rr = NoRR
    /\ twin = NoTwin
    /\ conc = NoConc

\* The commands that produce I/O on each backend.
HttpIOOps == {"Navigate", "Get", "Click", "SubmitForm", "FollowAnchor", "SavePage"}
ChromeIOOps == {"Navigate", "WaitVisible", "SendKeys", "Click", "SubmitForm",
                "FollowAnchor", "SavePage"}
IOOps == IF backend = "chrome" THEN ChromeIOOps ELSE HttpIOOps

\* The slot the next command consumes first.
NextSlot == invokeCount + 1

\* A script goes on while the counter is below the bound.
CanStart == invokeCount < MaxCount

\* Command c writes to the session directory: the body (a recording
\* request, any live browser command, SavePage on HTTP, the temporary file
\* of a browser replay) and after it the sidecar (not SavePage on HTTP).
WritesBody(c) ==
    IF backend = "chrome" THEN c.op \in ChromeIOOps
    ELSE c.op = "SavePage" \/ (~NotUseNetwork /\ SaveToFile /\ c.op \in HttpIOOps)

WritesMeta(c) ==
    /\ ~NotUseNetwork
    /\ IF backend = "chrome" THEN c.op \in ChromeIOOps
       ELSE SaveToFile /\ c.op \in HttpIOOps \ {"SavePage"}

\* The disk can fail only where the command writes.
DiskCanFail(c) ==
    /\ faults < MaxFaults
    /\ c.disk = "bodyFail" => WritesBody(c)
    /\ c.disk = "metaFail" => WritesMeta(c)

\* The caller runs command c on the session.
Step(c) ==
    /\ CanStart
    /\ c.disk # "ok" => DiskCanFail(c)
    /\ faults' = IF c.disk # "ok" THEN faults + 1 ELSE faults
    /\ LET w == Do(World, c)
       IN  /\ Become(w)
           /\ last' = Outcome(c, World, w)
    /\ UNCHANGED <<ran, rr, twin, conc, form, dest, calc>>

CmdNavigate == \E u \in NavURLs, d \in DiskOutcomes : Step(Cmd("Navigate", u, "", d))
CmdGet == \E u \in NavURLs : backend = "http" /\ Step(Cmd("Get", u, "", "ok"))
CmdWaitVisible == \E s \in WaitSelectors : Step(Cmd("WaitVisible", s, "", "ok"))
CmdSendKeys == \E s \in KeySelectors, v \in KeyValues : Step(Cmd("SendKeys", s, v, "ok"))
CmdClick == \E s \in ClickSelectors : Step(Cmd("Click", s, "", "ok"))
CmdSubmitForm ==
    \E f \in FormSelectors, p \in {"nil"} \cup KeySelectors, d \in DiskOutcomes :
        Step(Cmd("SubmitForm", f, p, d))
CmdFollowAnchor == \E t \in AnchorTexts : Step(Cmd("FollowAnchor", t, "", "ok"))
CmdSavePage == \E d \in DiskOutcomes : Step(Cmd("SavePage", "", "", d))
CmdSleep == Step(Cmd("Sleep", "", "", "ok"))

\* Every command a caller may run.
Commands ==
    {Cmd("Navigate", u, "", d) : u \in NavURLs, d \in DiskOutcomes}
    \cup {Cmd("Get", u, "", "ok") : u \in NavURLs}
    \cup {Cmd("WaitVisible", s, "", "ok") : s \in WaitSelectors}
    \cup {Cmd("SendKeys", s, v, "ok") : s \in KeySelectors, v \in KeyValues}
    \cup {Cmd("Click", s, "", "ok") : s \in ClickSelectors}
    \cup {Cmd("SubmitForm", f, p, d) :
            f \in FormSelectors, p \in {"nil"} \cup KeySelectors, d \in DiskOutcomes}
    \cup {Cmd("FollowAnchor", t, "", "ok") : t \in AnchorTexts}
    \cup {Cmd("SavePage", "", "", d) : d \in DiskOutcomes}
    \cup {Cmd("Sleep", "", "", "ok")}

\* Get is a method of the HTTP session only.
Applicable(c) == c.op = "Get" => backend = "http"

\* The caller switches the session to replay and rewinds the counter, as
\* a replay run begins.
StartReplay ==
    /\ ~NotUseNetwork
    /\ NotUseNetwork' = TRUE
    /\ invokeCount' = 0
    /\ last' = NoOutcome("StartReplay")
    /\ UNCHANGED <<backend, SaveToFile, currentPage, pendingFormData, files, metas,
                   browserPage, faults, ran, rr, twin, conc, form, dest, calc>>

Next ==
    \/ CmdNavigate
    \/ CmdGet
    \/ CmdWaitVisible
    \/ CmdSendKeys
    \/ CmdClick
    \/ CmdSubmitForm
    \/ CmdFollowAnchor
    \/ CmdSavePage
    \/ CmdSleep
    \/ StartReplay

Spec == Init /\ [][Next]_vars

\* ------------------------------------------------------------ Session.Run

\* A variant of the loop of Run that goes on after an action failed and
\* returns the first error at the end.
RunLoop_KeepGoing(w, actions, i, log) ==
    LET RECURSIVE Go(_, _, _, _)
        Go(v, j, l, e) ==
            IF j > Len(actions) THEN [w |-> v, err |-> e, log |-> l]
            ELSE LET v1 == Do(v, actions[j])
                 IN  Go(v1, j + 1,
                        Append(l, [index |-> j, action |-> actions[j], err |-> v1.err]),
                        IF e = NoErr THEN v1.err ELSE e)
    IN  Go(w, i, log, NoErr)

RECURSIVE RunLoop(_, _, _, _)
\* The loop of Session.Run from the i-th action on: each action's Do, and
\* the return at the first error.  log lists what was executed.
RunLoop(w, actions, i, log) ==
    IF i > Len(actions) THEN [w |-> w, err |-> NoErr, log |-> log]
    ELSE LET Done(w1) ==
                 LET log1 == Append(log, [index |-> i, action |-> actions[i],
                                          err |-> w1.err])
                 IN  IF w1.err # NoErr THEN [w |-> w1, err |-> w1.err, log |-> log1]
                     ELSE RunLoop(w1, actions, i + 1, log1)
         IN  Done(Do(w, actions[i]))

\* Session.Run(actions...)
Run(w, actions) == RunLoop(w, actions, 1, <<>>)

\* The session after the first k of the actions ran one after the other.
RECURSIVE After(_, _, _)
After(w, actions, k) ==
    IF k = 0 THEN w ELSE Do(After(w, actions, k - 1), actions[k])

\* The actions a caller hands to Run.
RunAlphabet ==
    {Cmd("Navigate", "uA", "", "ok"), Cmd("Navigate", "uDown", "", "ok"),
     Cmd("SendKeys", "input[name=user]", "v1", "ok"),
     Cmd("Click", "#go", "", "ok"), Cmd("SavePage", "", "", "ok")}

Scripts == UNION {[1..n -> RunAlphabet] : n \in 0..MaxRun}

\* Run is a method of the HTTP session.
InitRun == Init /\ backend = "http"

\* The caller runs a sequence of actions with one call of Run: the script
\* of a session, run live or, after the switch, in replay.
RunActions(actions) ==
    /\ ran.gen = 0
    /\ LET Ran(r) ==
               /\ Become(r.w)
               /\ ran' = [actions |-> actions, log |-> r.log, err |-> r.err, gen |-> 1]
       IN  Ran(Run(World, actions))
    /\ UNCHANGED <<faults, last, rr, twin, conc, form, dest, calc>>

RunScript == \E actions \in Scripts : RunActions(actions)

NextRun ==
    \/ RunScript
    \/ StartReplay

SpecRun == InitRun /\ [][NextRun]_vars

\* C6: Run executes its actions in the given order, stops at the first
\* action that fails and returns that action's error: what was executed is
\* a prefix of the actions, only its last entry can have failed, the
\* session is as those actions alone leave it, and the result is nil
\* exactly when every action was executed and succeeded.
C6_RunStopsAtFirstError ==
    [][ran'.gen # ran.gen =>
          LET a == ran'.actions
              log == ran'.log
              k == Len(log)
          IN  /\ k <= Len(a)
              /\ \A i \in 1..k : log[i].index = i /\ log[i].action = a[i]
              /\ \A i \in 1..(k - 1) : log[i].err = NoErr
              /\ k < Len(a) => log[k].err # NoErr
              /\ ran'.err # NoErr => (k >= 1 /\ log[k].err = ran'.err)
              /\ ran'.err = NoErr <=>
                    (k = Len(a) /\ \A i \in 1..k : log[i].err = NoErr)
              /\ World' = Begin(After(World, a, k))]_vars

\* A Run of three actions whose second action failed.
C6_Witness ==
    /\ Len(ran.actions) = 3 /\ Len(ran.log) = 2
    /\ ran.err # NoErr /\ ran.log[1].err = NoErr
    /\ ran.actions[3].op = "SavePage"

\* ------------------------------------------------------ record, then replay

\* The page a caller sees: its content and GetCurrentURL().
Observed(w) ==
    IF w.backend = "chrome"
    THEN [body |-> w.browserPage.body, url |-> ChromeGetCurrentURL(w)]
    ELSE [body |-> w.currentPage.body, url |-> GetCurrentURL(w)]

\* The commands of a recorded script; the disk works throughout.
ScriptCommands == {c \in Commands : c.disk = "ok" /\ Applicable(c)}

\* A recording session: SaveToFile on, the counter at 0.
InitRR ==
    /\ InitSession
    /\ SaveToFile
    /\ rr = [NoRR EXCEPT !.phase = "record"]
    /\ ran = NoRun
    /\ form = NoForm
    /\ dest = NoDest
    /\ calc = NoCalc
    /\ twin = NoTwin
    /\ conc = NoConc

\* The record run: a command that succeeds joins the script, with the page
\* it left.
Record(c) ==
    /\ rr.phase = "record"
    /\ Len(rr.script) < MaxScript
    /\ LET w == Do(World, c)
       IN  /\ w.err = NoErr
           /\ Become(w)
           /\ last' = Outcome(c, World, w)
           /\ rr' = [rr EXCEPT !.script = Append(@, c),
                               !.pages = Append(@, Observed(w))]
    /\ UNCHANGED <<faults, ran, twin, conc, form, dest, calc>>

RecordCommand == \E c \in ScriptCommands : Record(c)

\* The caller switches the session to replay and rewinds the counter; the
\* session keeps the page and the pending form data the record run left.
RewindForReplay ==
    /\ rr.phase = "record"
    /\ rr.script # <<>>
    /\ NotUseNetwork' = TRUE
    /\ invokeCount' = 0
    /\ last' = NoOutcome("StartReplay")
    /\ rr' = [rr EXCEPT !.phase = "replay"]
    /\ UNCHANGED <<backend, SaveToFile, currentPage, pendingFormData, files, metas,
                   browserPage, faults, ran, twin, conc, form, dest, calc>>

\* The caller makes a new session over the same directory for the replay.
NewSessionForReplay ==
    /\ rr.phase = "record"
    /\ rr.script # <<>>
    /\ NotUseNetwork' = TRUE
    /\ invokeCount' = 0
    /\ currentPage' = NoPage
    /\ pendingFormData' = EmptyMap
    /\ browserPage' = NewWorld(backend, SaveToFile).browserPage
    /\ last' = NoOutcome("StartReplay")
    /\ rr' = [rr EXCEPT !.phase = "replay", !.fresh = TRUE]
    /\ UNCHANGED <<backend, SaveToFile, files, metas, faults, ran, twin, conc, form, dest, calc>>

\* The replay run: the next command of the script, while all succeeded.
ReplayCommand ==
    /\ rr.phase = "replay"
    /\ rr.pos < Len(rr.script)
    /\ last.err = NoErr
    /\ LET c == rr.script[rr.pos + 1]
           w == Do(World, c)
       IN  /\ Become(w)
           /\ last' = Outcome(c, World, w)
    /\ rr' = [rr EXCEPT !.pos = @ + 1]
    /\ UNCHANGED <<faults, ran, twin, conc, form, dest, calc>>

NextRR ==
    \/ RecordCommand
    \/ RewindForReplay
    \/ NewSessionForReplay
    \/ ReplayCommand

SpecRR == InitRR /\ [][NextRR]_vars

PairOps == {"Navigate", "WaitVisible", "SendKeys", "Click", "SubmitForm", "Sleep",
            "SavePage"}
PairCommands == {c \in Commands : c.op \in PairOps /\ c.disk = "ok"}

\* An HTTP session and a browser session, each over its own empty directory.
InitPair ==
    /\ InitSession
    /\ backend = "http"
    /\ SaveToFile
    /\ twin = NoTwin
    /\ ran = NoRun
    /\ form = NoForm
    /\ dest = NoDest
    /\ calc = NoCalc
    /\ rr = NoRR
    /\ conc = NoConc

\* The same action runs on both sessions.
OnBoth(c) ==
    /\ CanStart
    /\ twin.w.invokeCount < MaxCount
    /\ LET w == Do(World, c)
           t == Do(twin.w, c)
       IN  /\ Become(w)
           /\ last' = Outcome(c, World, w)
           /\ twin' = [w |-> t, delta |-> t.invokeCount - twin.w.invokeCount]
    /\ UNCHANGED <<faults, ran, rr, conc, form, dest, calc>>

PairAction == \E c \in PairCommands : OnBoth(c)

\* Both sessions are switched to replay and rewound.
PairStartReplay ==
    /\ ~NotUseNetwork
    /\ NotUseNetwork' = TRUE
    /\ invokeCount' = 0
    /\ last' = NoOutcome("StartReplay")
    /\ twin' = [w |-> [Begin(twin.w) EXCEPT !.NotUseNetwork = TRUE, !.invokeCount = 0],
                delta |-> 0]
    /\ UNCHANGED <<backend, SaveToFile, currentPage, pendingFormData, files, metas,
                   browserPage, faults, ran, rr, conc, form, dest, calc>>

NextPair ==
    \/ PairAction
    \/ PairStartReplay

SpecPair == InitPair /\ [][NextPair]_vars

\* C8 as stated: an action that succeeds on both backends advanced the
\* counter of the HTTP session as far as that of the browser session.
C8_SameAdvance ==
    (last.op \in PairOps /\ last.err = NoErr /\ twin.w.err = NoErr) =>
        last.delta = twin.delta

\* C8, amended: of the actions that succeed on both backends, Click,
\* SubmitForm and SavePage advance both counters by one and Sleep by none;
\* Navigate advances the browser session's by one and the HTTP session's by
\* one, or by two when it follows a meta refresh; WaitVisible and SendKeys
\* advance the browser session's by one and the HTTP session's not at all.
C8_AdvancePerBackend ==
    [][(last'.op \in PairOps /\ last'.err = NoErr /\ twin'.w.err = NoErr) =>
          LET dh == invokeCount' - invokeCount
              dc == twin'.w.invokeCount - twin.w.invokeCount
          IN  /\ last'.op \in {"Click", "SubmitForm", "SavePage"} => (dh = 1 /\ dc = 1)
              /\ last'.op = "Sleep" => (dh = 0 /\ dc = 0)
              /\ last'.op = "Navigate" =>
                    /\ dc = 1
                    /\ dh \in {1, 2}
                    /\ dh = 1 => MetaRefresh(currentPage') = NoURL
                    /\ dh = 2 => Doc(files'[NextSlot]).refresh # NoURL
              /\ last'.op \in {"WaitVisible", "SendKeys"} => (dh = 0 /\ dc = 1)]_vars

\* WaitVisible succeeded on both sessions: one artifact on the browser
\* session, none on the HTTP session.
C8_Witness ==
    /\ last.op = "WaitVisible" /\ last.err = NoErr /\ twin.w.err = NoErr
    /\ last.delta = 0 /\ twin.delta = 1

\* --------------------------------------- goroutines sharing one session

Procs == 1..NumProcs

\* An HTTP session that goroutines are about to share; pc is where each
\* goroutine stands, reg the counter value it read, name the slot of the
\* file name it computed, mu the goroutine holding session.mu (0: nobody),
\* typed the selector its SendKeys stored, params, page and sent the
\* parameters, the page and the posted fields of its submission.
InitConc ==
    /\ InitSession
    /\ backend = "http"
    /\ ~SaveToFile
    /\ conc = [pc |-> [p \in Procs |-> "idle"], reg |-> [p \in Procs |-> 0],
               name |-> [p \in Procs |-> 0], mu |-> 0,
               typed |-> [p \in Procs |-> ""],
               params |-> [p \in Procs |-> NilParams],
               page |-> [p \in Procs |-> NoPage],
               sent |-> [p \in Procs |-> NoPost]]
    /\ ran = NoRun
    /\ form = NoForm
    /\ dest = NoDest
    /\ calc = NoCalc
    /\ rr = NoRR
    /\ twin = NoTwin

\* What the goroutine steps leave alone.
ConcFrame ==
    UNCHANGED <<backend, NotUseNetwork, SaveToFile, browserPage, metas, faults,
                last, ran, rr, twin, form, dest, calc>>

\* Before the goroutines start, the caller loads a page with GetPage.
ConcGetPage ==
    /\ \A p \in Procs : conc.pc[p] = "idle"
    /\ currentPage = NoPage
    /\ LET w == GetPage(Begin(World), "uA", "ok")
       IN  /\ Become(w)
           /\ last' = Outcome(Cmd("Navigate", "uA", "", "ok"), World, w)
    /\ UNCHANGED <<faults, ran, rr, twin, conc, form, dest, calc>>

\* A goroutine calls Session.SavePage.
CallSavePage(p) ==
    /\ conc.pc[p] = "idle"
    /\ conc' = [conc EXCEPT !.pc[p] = "sp_check"]
    /\ UNCHANGED <<invokeCount, currentPage, pendingFormData, files>>
    /\ ConcFrame

\* if session.currentPage == nil: read without the lock.
SavePageCheck(p) ==
    /\ conc.pc[p] = "sp_check"
    /\ conc' = [conc EXCEPT !.pc[p] = IF currentPage = NoPage THEN "failed"
                                      ELSE "sp_load"]
    /\ UNCHANGED <<invokeCount, currentPage, pendingFormData, files>>
    /\ ConcFrame

\* session.invokeCount++, the read: without the lock.
SavePageLoadCount(p) ==
    /\ conc.pc[p] = "sp_load"
    /\ conc' = [conc EXCEPT !.pc[p] = "sp_store", !.reg[p] = invokeCount]
    /\ UNCHANGED <<invokeCount, currentPage, pendingFormData, files>>
    /\ ConcFrame

\* session.invokeCount++, the write: without the lock.
SavePageStoreCount(p) ==
    /\ conc.pc[p] = "sp_store"
    /\ invokeCount' = conc.reg[p] + 1
    /\ conc' = [conc EXCEPT !.pc[p] = "sp_name"]
    /\ UNCHANGED <<currentPage, pendingFormData, files>>
    /\ ConcFrame

\* filename := session.getHtmlFilename(): the counter is read again.
SavePageFilename(p) ==
    /\ conc.pc[p] = "sp_name"
    /\ conc' = [conc EXCEPT !.pc[p] = "sp_write", !.name[p] = invokeCount]
    /\ UNCHANGED <<invokeCount, currentPage, pendingFormData, files>>
    /\ ConcFrame

\* session.currentPage.Html() and os.WriteFile(filename, body).
SavePageWrite(p) ==
    /\ conc.pc[p] = "sp_write"
    /\ files' = [files EXCEPT ![conc.name[p]] = currentPage.body]
    /\ conc' = [conc EXCEPT !.pc[p] = "saved"]
    /\ UNCHANGED <<invokeCount, currentPage, pendingFormData>>
    /\ ConcFrame

\* A goroutine calls Session.SendKeys.
CallSendKeys(p) ==
    /\ conc.pc[p] = "idle"
    /\ conc' = [conc EXCEPT !.pc[p] = "sk_lock"]
    /\ UNCHANGED <<invokeCount, currentPage, pendingFormData, files>>
    /\ ConcFrame

\* session.mu.Lock()
SendKeysLock(p) ==
    /\ conc.pc[p] = "sk_lock"
    /\ conc.mu = 0
    /\ conc' = [conc EXCEPT !.pc[p] = "sk_store", !.mu = p]
    /\ UNCHANGED <<invokeCount, currentPage, pendingFormData, files>>
    /\ ConcFrame

\* session.pendingFormData[selector] = value, and the deferred Unlock.
SendKeysStore(p) ==
    /\ conc.pc[p] = "sk_store"
    /\ \E sel \in KeySelectors :
          /\ pendingFormData' = sendKeysAction(World, sel, "v1").pendingFormData
          /\ conc' = [conc EXCEPT !.pc[p] = "typed", !.mu = 0, !.typed[p] = sel]
    /\ UNCHANGED <<invokeCount, currentPage, files>>
    /\ ConcFrame

\* A goroutine calls Session.SubmitForm(form, nil).
CallSubmitForm(p) ==
    /\ conc.pc[p] = "idle"
    /\ conc' = [conc EXCEPT !.pc[p] = "sf_page", !.params[p] = NilParams]
    /\ UNCHANGED <<invokeCount, currentPage, pendingFormData, files>>
    /\ ConcFrame

\* A goroutine calls Session.Click on the submit control: the current page
\* is read under RLock, the control and its form are found.
CallClick(p) ==
    /\ conc.pc[p] = "idle"
    /\ conc.mu = 0
    /\ conc' = [conc EXCEPT !.pc[p] = IF currentPage = NoPage THEN "failed"
                                      ELSE "ck_copy"]
    /\ UNCHANGED <<invokeCount, currentPage, pendingFormData, files>>
    /\ ConcFrame

\* Click copies the pending form data under RLock and calls submitUnified
\* with the copy.
ClickCopy(p) ==
    /\ conc.pc[p] = "ck_copy"
    /\ conc.mu = 0
    /\ conc' = [conc EXCEPT !.pc[p] = "sf_page",
                            !.params[p] = MapParams(pendingFormData)]
    /\ UNCHANGED <<invokeCount, currentPage, pendingFormData, files>>
    /\ ConcFrame

\* submitUnified reads the current page under RLock; without a page it
\* returns before the cleanup is deferred.
SubmitReadPage(p) ==
    /\ conc.pc[p] = "sf_page"
    /\ conc.mu = 0
    /\ conc' = [conc EXCEPT !.pc[p] = IF currentPage = NoPage THEN "failed"
                                      ELSE "sf_copy",
                            !.page[p] = currentPage]
    /\ UNCHANGED <<invokeCount, currentPage, pendingFormData, files>>
    /\ ConcFrame

\* if params == nil: the pending form data is copied under RLock.
SubmitCopy(p) ==
    /\ conc.pc[p] = "sf_copy"
    /\ conc.params[p].nil => conc.mu = 0
    /\ conc' = [conc EXCEPT !.pc[p] = "sf_post",
                            !.params[p] = IF @.nil THEN MapParams(pendingFormData)
                                          ELSE @]
    /\ UNCHANGED <<invokeCount, currentPage, pendingFormData, files>>
    /\ ConcFrame

\* The selectors are converted and FormAction posts the form of the page
\* that was read; a failure leads straight to the deferred cleanup.
SubmitPost(p) ==
    /\ conc.pc[p] = "sf_post"
    /\ LET w == FormAction(Begin(World), conc.page[p], "form",
                           ConvertParams(conc.params[p].map), "ok")
       IN  /\ invokeCount' = w.invokeCount
           /\ files' = w.files
           /\ conc' = [conc EXCEPT
                         !.pc[p] = IF w.err = NoErr THEN "sf_setpage" ELSE "sf_failed",
                         !.sent[p] = w.post,
                         !.page[p] = IF w.err = NoErr THEN PageOpt(w.resp) ELSE @]
    /\ UNCHANGED <<currentPage, pendingFormData>>
    /\ ConcFrame

\* session.currentPage = page, under Lock.
SubmitSetPage(p) ==
    /\ conc.pc[p] = "sf_setpage"
    /\ conc.mu = 0
    /\ currentPage' = conc.page[p]
    /\ conc' = [conc EXCEPT !.pc[p] = "sf_clear"]
    /\ UNCHANGED <<invokeCount, pendingFormData, files>>
    /\ ConcFrame

\* The deferred function: the pending form data is replaced by an empty
\* map, under Lock, on every exit path after the page check.
SubmitClear(p) ==
    /\ conc.pc[p] \in {"sf_clear", "sf_failed"}
    /\ conc.mu = 0
    /\ pendingFormData' = EmptyMap
    /\ conc' = [conc EXCEPT !.pc[p] = IF @ = "sf_clear" THEN "submitted" ELSE "failed"]
    /\ UNCHANGED <<invokeCount, currentPage, files>>
    /\ ConcFrame

NextConc ==
    \/ ConcGetPage
    \/ \E p \in Procs : CallSavePage(p)
    \/ \E p \in Procs : SavePageCheck(p)
    \/ \E p \in Procs : SavePageLoadCount(p)
    \/ \E p \in Procs : SavePageStoreCount(p)
    \/ \E p \in Procs : SavePageFilename(p)
    \/ \E p \in Procs : SavePageWrite(p)
    \/ \E p \in Procs : CallSendKeys(p)
    \/ \E p \in Procs : SendKeysLock(p)
    \/ \E p \in Procs : SendKeysStore(p)
    \/ \E p \in Procs : CallSubmitForm(p)
    \/ \E p \in Procs : CallClick(p)
    \/ \E p \in Procs : ClickCopy(p)
    \/ \E p \in Procs : SubmitReadPage(p)
    \/ \E p \in Procs : SubmitCopy(p)
    \/ \E p \in Procs : SubmitPost(p)
    \/ \E p \in Procs : SubmitSetPage(p)
    \/ \E p \in Procs : SubmitClear(p)

SpecConc == InitConc /\ [][NextConc]_vars

\* C10 as stated: two SavePage calls that ran concurrently obtained
\* distinct counter values and wrote distinct artifact files.
C10_DistinctFiles ==
    \A p, q \in Procs :
        (p # q /\ conc.pc[p] = "saved" /\ conc.pc[q] = "saved") =>
            conc.name[p] # conc.name[q]

\* C37: a value SendKeys stored is not silently lost to a concurrent
\* submission: once the SendKeys and a SubmitForm(form, nil), or a Click on
\* the submit control, have both returned without error, the value is among
\* the fields that submission posted or is still pending.
C37_StoredNotLost ==
    \A p, q \in Procs :
        (conc.pc[p] = "typed" /\ conc.pc[q] = "submitted") =>
            LET selector == conc.typed[p]
                name == extractNameFromSelector(selector)
            IN  \/ /\ selector \in DOMAIN pendingFormData
                   /\ pendingFormData[selector] = "v1"
                \/ /\ name \in DOMAIN conc.sent[q].fields
                   /\ conc.sent[q].fields[name] = "v1"

\* ------------------------------------------------- a caller filling a form

\* The pages with a form, the selectors, names, values, labels and option
\* indexes a caller may use, and the image a submission may name.
FormURLs == {"uF1", "uF2"}
BuildSelectors == {"form", "#none"}
FormNames == {"user", "agree", "color", "pref", "go", "tags", "dup", "nope"}
FormValues == {"v1", "red", "b"}
FormLabels == {"B", "Agree", "L", "Nope"}
FormIndexes == {0, 1, 3}
ImageIds == {"", "go", "nope"}

\* What is remembered of a call on the form: the method, its arguments and
\* the error it returned.  A submission also keeps the call before it.
FormCall(op, name, arg, index, err) ==
    [op |-> op, name |-> name, arg |-> arg, index |-> index, err |-> err]

\* A new HTTP session; the caller holds no form yet.
InitForm ==
    /\ InitSession
    /\ backend = "http"
    /\ ran = NoRun
    /\ rr = NoRR
    /\ twin = NoTwin
    /\ conc = NoConc
    /\ dest = NoDest
    /\ calc = NoCalc
    /\ form = [phase |-> "new", f |-> NilForm, steps |-> 0,
               last |-> FormCall("NewSession", "", "", 0, NoErr),
               prior |-> FormCall("NewSession", "", "", 0, NoErr), posted |-> EmptyMap]

\* What the calls on the form leave alone: the session.
FormFrame ==
    UNCHANGED <<backend, NotUseNetwork, SaveToFile, invokeCount, currentPage,
                pendingFormData, files, metas, browserPage, faults, last,
                ran, rr, twin, conc, dest, calc>>

\* page, err := session.GetPage(u)
FormGetPage ==
    \E u \in FormURLs :
        /\ form.phase = "new"
        /\ LET w == GetPage(Begin(World), u, "ok")
           IN  /\ Become(w)
               /\ last' = Outcome(Cmd("Navigate", u, "", "ok"), World, w)
        /\ form' = [form EXCEPT !.phase = "page", !.last = FormCall("GetPage", u, "", 0, NoErr)]
        /\ UNCHANGED <<faults, ran, rr, twin, conc, dest, calc>>

\* form, err := page.Form(selector)
FormBuild ==
    \E selector \in BuildSelectors :
        /\ form.phase = "page"
        /\ LET r == PageForm(currentPage, selector)
           IN  form' = [form EXCEPT !.phase = IF r.err = NoErr THEN "built" ELSE "page",
                                    !.f = r.form,
                                    !.last = FormCall("Form", selector, "", 0, r.err)]
        /\ FormFrame

\* One call on the form the caller holds.
Called(op, name, arg, index, r) ==
    /\ form.phase = "built"
    /\ form.steps < MaxFormOps
    /\ form' = [form EXCEPT !.f = r.form, !.steps = @ + 1,
                            !.last = FormCall(op, name, arg, index, r.err)]
    /\ FormFrame

FormSet == \E n \in FormNames, v \in FormValues : Called("Set", n, v, 0, Set(form.f, n, v))
FormSetForce ==
    \E n \in FormNames, v \in FormValues : Called("SetForce", n, v, 0, SetForce(form.f, n, v))
FormSetByLabel ==
    \E n \in FormNames, l \in FormLabels :
        Called("SetByLabel", n, l, 0, SetByLabel(form.f, n, l))
FormSelect ==
    \E n \in FormNames, i \in FormIndexes : Called("Select", n, "", i, Select(form.f, n, i))
FormCheck == \E n \in FormNames : Called("Check", n, "", 0, Check(form.f, n))
FormUncheck == \E n \in FormNames : Called("Uncheck", n, "", 0, Uncheck(form.f, n))
FormUnset == \E n \in FormNames : Called("Unset", n, "", 0, Unset(form.f, n))

\* resp, err := session.SubmitOpt(form, imageId)
FormSubmit ==
    \E imageId \in ImageIds :
        /\ form.phase = "built"
        /\ CanStart
        /\ LET w == SubmitOpt(Begin(World), form.f, imageId, "ok")
           IN  /\ Become(w)
               /\ last' = Outcome(Cmd("SubmitOpt", imageId, "", "ok"), World, w)
               /\ form' = [form EXCEPT !.phase = "posted", !.posted = w.post.fields,
                                       !.prior = form.last,
                                       !.last = FormCall("SubmitOpt", imageId, "", 0, w.err)]
        /\ UNCHANGED <<faults, ran, rr, twin, conc, dest, calc>>

NextForm ==
    \/ FormGetPage
    \/ FormBuild
    \/ FormSet
    \/ FormSetForce
    \/ FormSetByLabel
    \/ FormSelect
    \/ FormCheck
    \/ FormUncheck
    \/ FormUnset
    \/ FormSubmit

SpecForm == InitForm /\ [][NextForm]_vars

\* The elements of the form by the kind of their tag.
IsKind(element, kind) == ToLower(element.Type) = kind
Enumerated(element) == element.AvailableValues # <<>>
Offers(element, val) ==
    \E i \in 1..Len(element.AvailableValues) : element.AvailableValues[i] = val

\* --------------------------------------------------- properties of forms

\* C11: in every form built by Page.Form, after any calls of Set,
\* SetByLabel, SetForce, Select, Check, Uncheck and Unset, the Value of each
\* radio or select element is one of its available values, and the Value
\* of each checkbox element is nil or its sole available value.
C11_ValueIsAvailable ==
    form.phase \in {"built", "posted"} =>
        \A n \in DOMAIN form.f.Elements :
            LET element == form.f.Elements[n]
            IN  /\ (IsKind(element, "radio") \/ IsKind(element, "select")) =>
                      Offers(element, element.Value)
                /\ IsKind(element, "checkbox") =>
                      \/ element.Value = NilValue
                      \/ element.AvailableValues = <<element.Value>>

\* The elements other than name are the same before and after the call.
OthersKept(name) ==
    /\ DOMAIN form'.f.Elements = DOMAIN form.f.Elements
    /\ \A n \in DOMAIN form.f.Elements \ {name} : form'.f.Elements[n] = form.f.Elements[n]

\* C12: Set(name, value) replaces the Value of an element without
\* enumerated values by value; on an element with enumerated values it
\* succeeds only if value is one of them and otherwise returns an error and
\* leaves the form as it was; for a name no element has it returns
\* FormElementNotFound and adds no element.
C12_SetContract ==
    [][form'.last.op = "Set" =>
          LET name == form'.last.name
              value == form'.last.arg
              err == form'.last.err
          IN  IF name \notin DOMAIN form.f.Elements
              THEN err = "FormElementNotFound" /\ form'.f = form.f
              ELSE LET element == form.f.Elements[name]
                       after == form'.f.Elements[name]
                   IN  IF ~Enumerated(element)
                       THEN /\ err = NoErr
                            /\ after = [element EXCEPT !.Value = AvailableValue(value, "")]
                            /\ OthersKept(name)
                       ELSE IF \E i \in 1..Len(element.AvailableValues) :
                                   element.AvailableValues[i].Value = value
                       THEN /\ err = NoErr
                            /\ after.Value.Value = value
                            /\ Offers(element, after.Value)
                            /\ after = [element EXCEPT !.Value = after.Value]
                            /\ OthersKept(name)
                       ELSE err \notin {NoErr, "FormElementNotFound"} /\ form'.f = form.f]_vars

\* A Set was refused on an element with enumerated values, and another
\* replaced the Value of an element without them.
C12_Witness ==
    /\ form.phase = "built" /\ form.last.op = "Set"
    /\ form.last.name = "color" /\ form.last.err = "ValueNotAvailable"
    /\ form.f.Elements["user"].Value = AvailableValue("v1", "")

\* The tags of the form the caller holds.
Tag == Markup(currentPage.body)["form"]

\* The radio and checkbox inputs of a name, and the options of a select that
\* carry a value attribute, in document order.
InputsOf(name, kind) ==
    SelectSeq(Tag.inputs, LAMBDA s : s.name = name /\ s.type # NoAttr /\ ToLower(s.type) = kind)
Valued(options) == SelectSeq(options, LAMBDA o : o.value # NoAttr)
SelectsOf(name) == SelectSeq(Tag.selects, LAMBDA s : s.name = name)

\* The last marked tag of a sequence, the first tag when none is marked.
Last(seq, Marked(_)) ==
    LET marked == {i \in 1..Len(seq) : Marked(seq[i])}
    IN  IF marked = {} THEN 1 ELSE CHOOSE i \in marked : \A j \in marked : j <= i

\* The form is as Page.Form built it.
JustBuilt == form.phase = "built" /\ form.steps = 0

\* C13 as stated: on construction a radio group or select with nothing
\* checked or selected has its first option as Value, one with a checked or
\* selected option has that option, and a checkbox has a Value only if
\* checked.
C13_FirstOrChosen ==
    JustBuilt =>
        \A n \in DOMAIN form.f.Elements :
            LET element == form.f.Elements[n]
                radios == InputsOf(n, "radio")
                boxes == InputsOf(n, "checkbox")
                options == SelectsOf(n)[1].options
            IN  /\ IsKind(element, "radio") =>
                      element.Value.Label = radios[Last(radios, LAMBDA s : s.checked)].label
                /\ (IsKind(element, "select") /\ Len(options) > 0) =>
                      element.Value.Label = options[Last(options, LAMBDA o : o.selected)].text
                /\ (IsKind(element, "checkbox") /\ element.Value # NilValue) =>
                      \E i \in 1..Len(boxes) : boxes[i].checked

\* C13: on construction a radio group has its checked input as Value (the
\* last one checked), its first input when none is checked, with the value
\* "on" when the input carries none; a select has its selected option as
\* Value (the last one selected), its first option when none is selected,
\* counting only the options that carry a value attribute, and no Value
\* when no option carries one; a checkbox has a Value only if checked.
C13_FirstOrChosenValued ==
    JustBuilt =>
        \A n \in DOMAIN form.f.Elements :
            LET element == form.f.Elements[n]
                radios == InputsOf(n, "radio")
                boxes == InputsOf(n, "checkbox")
                options == Valued(SelectsOf(n)[1].options)
                radio == radios[Last(radios, LAMBDA s : s.checked)]
                option == options[Last(options, LAMBDA o : o.selected)]
            IN  /\ IsKind(element, "radio") =>
                      element.Value =
                          AvailableValue(IF radio.value = NoAttr THEN "on" ELSE radio.value,
                                         radio.label)
                /\ IsKind(element, "select") =>
                      IF Len(options) = 0 THEN element.Value = NilValue
                      ELSE element.Value = AvailableValue(option.value, option.text)
                /\ (IsKind(element, "checkbox") /\ element.Value # NilValue) =>
                      \E i \in 1..Len(boxes) : boxes[i].checked

\* A form was built whose radio group has nothing checked, whose other has
\* its second input checked, and whose select has its third option selected.
C13_Witness ==
    /\ JustBuilt
    /\ form.f.Elements["color"].Value = AvailableValue("red", "Red")
    /\ form.f.Elements["size"].Value.Value = "m"
    /\ form.f.Elements["pref"].Value = AvailableValue("b", "B")
    /\ form.f.Elements["agree"].Value = NilValue

\* C14: the map submitted holds name=Value exactly for the elements that
\* are no image and have a Value, and name.x=0, name.y=0 for the images
\* that have one: the targeted image, or every image when none is targeted.
C14_SubmittedValues ==
    (form.phase = "posted" /\ form.last.op = "SubmitOpt") =>
        LET els == form.f.Elements
            imageId == form.last.name
            plain == {n \in DOMAIN els : els[n].Value # NilValue /\ ~IsKind(els[n], "image")}
            images == {n \in DOMAIN els : /\ els[n].Value # NilValue
                                          /\ IsKind(els[n], "image")
                                          /\ (imageId = "" \/ n = imageId)}
        IN  /\ DOMAIN form.posted =
                  plain \cup {n \o ".x" : n \in images} \cup {n \o ".y" : n \in images}
            /\ \A n \in plain : form.posted[n] = els[n].Value.Value
            /\ \A n \in images : form.posted[n \o ".x"] = "0" /\ form.posted[n \o ".y"] = "0"

\* The value of the first option of the element that carries the label.
ValueOfLabel(element, label) ==
    LET hits == {i \in 1..Len(element.AvailableValues) :
                    element.AvailableValues[i].Label = label}
    IN  element.AvailableValues[CHOOSE i \in hits : \A j \in hits : i <= j].Value

\* C15: after SetByLabel(name, label) succeeded on an element with
\* enumerated values, the element holds the option of that label, the
\* other elements are as before, and a submission that follows sends for
\* name the value of that option, not its label.
C15_LabelSendsValue ==
    [][/\ (form'.last.op = "SetByLabel" /\ form'.last.err = NoErr) =>
            LET name == form'.last.name
                element == form.f.Elements[name]
            IN  /\ Enumerated(element)
                /\ form'.f.Elements[name].Value.Value = ValueOfLabel(element, form'.last.arg)
                /\ form'.f.Elements[name].Value.Label = form'.last.arg
                /\ OthersKept(name)
                /\ \A id \in ImageIds :
                      \A k \in DOMAIN SubmitValues(form.f, id) \ {name} :
                          /\ k \in DOMAIN SubmitValues(form'.f, id)
                          /\ SubmitValues(form'.f, id)[k] = SubmitValues(form.f, id)[k]
       /\ (form'.last.op = "SubmitOpt" /\ form.last.op = "SetByLabel" /\ form.last.err = NoErr) =>
            LET name == form.last.name
            IN  /\ name \in DOMAIN form'.posted
                /\ form'.posted[name] = ValueOfLabel(form.f.Elements[name], form.last.arg)
                /\ \A k \in DOMAIN form'.posted \ {name} :
                      k \in DOMAIN form.f.Elements => form'.posted[k] = form.f.Elements[k].Value.Value]_vars

\* A form was submitted right after SetByLabel checked the box labelled
\* Agree, and its value yes was sent.
C15_Witness ==
    /\ form.phase = "posted"
    /\ form.prior.op = "SetByLabel" /\ form.prior.arg = "Agree" /\ form.prior.err = NoErr
    /\ "agree" \in DOMAIN form.posted /\ form.posted["agree"] = "yes"

\* ------------------------------------- typing into fields, then submitting

\* The selectors and values a caller types with SendKeys: two selectors of
\* the field user, one of the field token, one that names no field.
TypedSelectors == {"input[name=user]", "[name=user]", "input[name=token]", "#user"}
TypedValues == {"v1", "v2"}

\* A new HTTP session; nothing typed yet.
InitKeys ==
    /\ InitSession
    /\ backend = "http"
    /\ ran = NoRun
    /\ rr = NoRR
    /\ twin = NoTwin
    /\ conc = NoConc
    /\ dest = NoDest
    /\ calc = NoCalc
    /\ form = [phase |-> "new", typed |-> <<>>, err |-> NoErr, posted |-> EmptyMap]

\* page, err := session.GetPage("uF1")
KeysGetPage ==
    /\ form.phase = "new"
    /\ LET w == GetPage(Begin(World), "uF1", "ok")
       IN  /\ Become(w)
           /\ last' = Outcome(Cmd("Navigate", "uF1", "", "ok"), World, w)
    /\ form' = [form EXCEPT !.phase = "page"]
    /\ UNCHANGED <<faults, ran, rr, twin, conc, dest, calc>>

\* session.SendKeys(selector, value)
KeysSendKeys ==
    \E selector \in TypedSelectors, value \in TypedValues :
        /\ form.phase = "page"
        /\ Len(form.typed) < MaxKeys
        /\ LET c == Cmd("SendKeys", selector, value, "ok")
               w == Do(World, c)
           IN  /\ Become(w)
               /\ last' = Outcome(c, World, w)
        /\ form' = [form EXCEPT !.typed = Append(@, [selector |-> selector, value |-> value])]
        /\ UNCHANGED <<faults, ran, rr, twin, conc, dest, calc>>

\* session.SubmitForm("form", nil), its ranges visiting the pending
\* selectors and the converted names in any order.
KeysSubmit ==
    \E selectors \in Orders(DOMAIN pendingFormData) :
        \E names \in Orders(DOMAIN ConvertParamsIn(pendingFormData, selectors)) :
            /\ form.phase = "page"
            /\ CanStart
            /\ LET c == Cmd("SubmitForm", "form", "", "ok")
                   w == submitUnifiedIn(Begin(World), "form", NilParams, selectors, names, "ok")
               IN  /\ Become(w)
                   /\ last' = Outcome(c, World, w)
                   /\ form' = [form EXCEPT !.phase = "posted", !.err = w.err,
                                           !.posted = w.post.fields]
            /\ UNCHANGED <<faults, ran, rr, twin, conc, dest, calc>>

NextKeys ==
    \/ KeysGetPage
    \/ KeysSendKeys
    \/ KeysSubmit

SpecKeys == InitKeys /\ [][NextKeys]_vars

\* The value typed last with a selector.
LastTyped(selector) ==
    LET at == {i \in 1..Len(form.typed) : form.typed[i].selector = selector}
    IN  form.typed[CHOOSE i \in at : \A j \in at : j <= i].value

\* C16: after SendKeys(s1,v1)..SendKeys(sk,vk), a successful
\* SubmitForm(form, nil) posts X=v for every pending selector of the shape
\* [name=X], v being the value typed last with that selector, together with
\* the other fields of the form that have a Value, and nothing else.
C16_PendingPosted ==
    (form.phase = "posted" /\ form.err = NoErr) =>
        LET typed == {form.typed[i].selector : i \in 1..Len(form.typed)}
            named == {s \in typed : extractNameFromSelector(s) # ""}
            names == {extractNameFromSelector(s) : s \in named}
            fields == SubmitValues(PageForm([body |-> "pF1", url |-> "uF1"], "form").form, "")
        IN  /\ \A s \in named :
                  /\ extractNameFromSelector(s) \in DOMAIN form.posted
                  /\ form.posted[extractNameFromSelector(s)] = LastTyped(s)
            /\ \A k \in DOMAIN fields \ names :
                  k \in DOMAIN form.posted /\ form.posted[k] = fields[k]
            /\ DOMAIN form.posted \subseteq DOMAIN fields \cup names

\* ------------------------------------------- filling a field from the page

\* The selections a field's find selector may match.
NodeLists == UNION {[1..n -> Nodes] : n \in 0..MaxNodes}

\* The tags a field may carry.
Options == {UnmarshalOption(attr, re, ignore) :
                attr \in {"", "href"}, re \in {"", "#([0-9]+)"}, ignore \in {"", "3"}}

\* A field filled: by which extractor, from which nodes, into which type,
\* under which tags, and what came of it.
Filled(by, found, kind, opt, r) ==
    [phase |-> "done", by |-> by, found |-> found, kind |-> kind, opt |-> opt,
     err |-> r.err, val |-> r.val]

\* Nothing filled yet.
InitExtract ==
    /\ InitSession
    /\ backend = "http"
    /\ ran = NoRun
    /\ rr = NoRR
    /\ twin = NoTwin
    /\ conc = NoConc
    /\ form = NoForm
    /\ calc = NoCalc
    /\ dest = [phase |-> "new", by |-> "", found |-> <<>>, kind |-> "int",
               opt |-> UnmarshalOption("", "", ""), err |-> NoErr, val |-> 0]

\* What filling a field leaves alone: the session.
ExtractFrame ==
    UNCHANGED <<backend, NotUseNetwork, SaveToFile, invokeCount, currentPage,
                pendingFormData, files, metas, browserPage, faults, last,
                ran, rr, twin, conc, form>>

\* scraper.Unmarshal of a struct, for one of its fields.
UnmarshalField ==
    \E found \in NodeLists, kind \in Kinds, opt \in Options :
        /\ dest.phase = "new"
        /\ dest' = Filled("dom", found, kind, opt, unmarshalValue(kind, found, opt))
        /\ UNCHANGED calc
        /\ ExtractFrame

\* scraper.ChromeUnmarshal of a struct, for one of its fields.
ChromeUnmarshalField ==
    \E found \in NodeLists, kind \in Kinds, opt \in Options :
        /\ dest.phase = "new"
        /\ dest' = Filled("chrome", found, kind, opt, FillField(kind, found, opt))
        /\ UNCHANGED calc
        /\ ExtractFrame

\* The same extractor run once more, on the same nodes under the same
\* tags, into the destination as the first run left it.
Again(r) ==
    [fn |-> "again", err |-> r.err, val |-> Settled(dest.val, dest.kind, r)]

UnmarshalAgain ==
    /\ dest.phase = "done"
    /\ calc = NoCalc
    /\ calc' = Again(IF dest.by = "dom" THEN unmarshalValue(dest.kind, dest.found, dest.opt)
                     ELSE FillField(dest.kind, dest.found, dest.opt))
    /\ UNCHANGED dest
    /\ ExtractFrame

\* The expressions of a re tag: without capture, with one, with two.
RePatterns == {"#[0-9]+", "#([0-9]+)", "(#)([0-9]+)"}

\* How many captures an expression has.
Captures(re) == CASE re = "#[0-9]+" -> 0 [] re = "(#)([0-9]+)" -> 2 [] OTHER -> 1

\* A field Items []string with a re tag, filled by either extractor.
MatchedRe(by, found, re, r) ==
    [fn |-> "re", by |-> by, found |-> found, re |-> re, err |-> r.err, val |-> r.val]

UnmarshalRe ==
    \E found \in NodeLists, re \in RePatterns :
        /\ dest.phase = "new"
        /\ calc = NoCalc
        /\ dest' = [dest EXCEPT !.phase = "re"]
        /\ calc' = MatchedRe("dom", found, re,
                             unmarshalValue("[]string", found, UnmarshalOption("", re, "")))
        /\ ExtractFrame

ChromeUnmarshalRe ==
    \E found \in NodeLists, re \in RePatterns :
        /\ dest.phase = "new"
        /\ calc = NoCalc
        /\ dest' = [dest EXCEPT !.phase = "re"]
        /\ calc' = MatchedRe("chrome", found, re,
                             FillField("[]string", found, UnmarshalOption("", re, "")))
        /\ ExtractFrame

NextExtract ==
    \/ UnmarshalField
    \/ ChromeUnmarshalField
    \/ UnmarshalAgain
    \/ UnmarshalRe
    \/ ChromeUnmarshalRe

SpecExtract == InitExtract /\ [][NextExtract]_vars

\* ------------------------------------------------ properties of Unmarshal

\* The text the tags read from a node, before the regular expression.
Raw(node) == IF dest.opt.Attr = "" THEN node.text ELSE node.href

\* Whether a node survives the attribute and the regular expression.
Survives(node) ==
    /\ dest.opt.Attr # "" => node.href # NoAttr
    /\ dest.opt.Re # "" => Raw(node) = "#3"

\* The surviving nodes, in document order.
Survivors == SelectSeq(dest.found, Survives)

\* The text a surviving node gives.
Given(node) == IF dest.opt.Re = "" THEN Raw(node) ELSE "3"

IsSlice == dest.kind \in {"[]int", "[]string"}

\* What a text becomes in a destination of a built-in type.
Parsed(kind, s) == IF kind = "string" THEN s ELSE Sscanf(s).i

\* C17: a selected text equal to the ignore sentinel leaves the zero value in
\* its destination, each element of a sequence destination included, with
\* either extractor.
C17_IgnoredIsZero ==
    (dest.phase = "done" /\ dest.err = NoErr /\ dest.opt.Ignore # "") =>
        IF IsSlice
        THEN \A i \in 1..Len(Survivors) :
                 Given(Survivors[i]) = dest.opt.Ignore => dest.val[i] = Zero(Elem(dest.kind))
        ELSE (Len(Survivors) = 1 /\ Given(Survivors[1]) = dest.opt.Ignore) =>
                 IF dest.kind = "*int" THEN ~dest.val.nil /\ dest.val.elem = 0
                 ELSE dest.val = Zero(dest.kind)

\* C18: a sequence destination filled without error has one element per
\* surviving match and no other, in document order: nodes without the
\* requested attribute and texts the regular expression does not match are
\* left out.
C18_OnePerSurvivor ==
    (dest.phase = "done" /\ dest.err = NoErr /\ IsSlice) =>
        /\ Len(dest.val) = Len(Survivors)
        /\ \A i \in 1..Len(Survivors) :
               dest.val[i] \in {Parsed(Elem(dest.kind), Given(Survivors[i])),
                                Zero(Elem(dest.kind))}

\* A sequence filled from three links of which the one without href is left
\* out.
C18_Witness ==
    /\ dest.phase = "done"
    /\ dest.err = NoErr
    /\ dest.kind = "[]string"
    /\ dest.opt = UnmarshalOption("href", "", "")
    /\ Len(dest.found) = 3
    /\ dest.found[2].href = NoAttr
    /\ dest.val = <<"3", "x">>

\* C19: an optional destination is absent on no match, present on one and an
\* error on more; a scalar or struct destination is an error unless exactly
\* one match survives.
C19_MatchCounts ==
    (dest.phase = "done" /\ ~IsSlice) =>
        IF dest.kind = "*int"
        THEN /\ Len(Survivors) = 0 => dest.err = NoErr /\ dest.val.nil
             /\ (Len(Survivors) = 1 /\ dest.err = NoErr) => ~dest.val.nil
             /\ Len(Survivors) = 1 => dest.err # "LengthNot1"
             /\ Len(Survivors) > 1 => dest.err = "LengthNot1"
        ELSE dest.err = "LengthNot1" <=> Len(Survivors) # 1

\* An optional destination over two nodes: with href asked for, one survives
\* and the pointer is set.
C19_Witness ==
    /\ dest.phase = "done"
    /\ dest.kind = "*int"
    /\ dest.opt.Attr = "href"
    /\ Len(dest.found) = 2
    /\ Len(Survivors) = 1
    /\ dest.err = NoErr
    /\ ~dest.val.nil
    /\ dest.val.elem = 3

\* C20: a destination with an Unmarshal method receives the one matched text
\* through that method, with either extractor, and is not filled field by
\* field.
C20_UnmarshallerCalled ==
    (/\ dest.phase = "done"
     /\ dest.kind = "Custom"
     /\ Len(Survivors) = 1
     /\ Given(Survivors[1]) # dest.opt.Ignore) =>
        /\ dest.err = NoErr
        /\ dest.val = CustomUnmarshal(Given(Survivors[1])).val

\* The nodes whose text the expression matches, in document order.
Matching == SelectSeq(calc.found, LAMBDA node : node.text = "#3")

\* C32: with re set a matched text is handled by the number of captures: with
\* none the text is skipped, with one the captured text replaces it, with
\* more than one the extraction fails.
C32_ByCaptures ==
    calc.fn = "re" =>
        CASE Captures(calc.re) = 0 -> calc.err = NoErr /\ calc.val = <<>>
          [] Captures(calc.re) = 1 ->
                /\ calc.err = NoErr
                /\ calc.val = [i \in 1..Len(Matching) |-> "3"]
          [] OTHER -> Matching # <<>> => calc.err # NoErr

Pseudos ==
    {NoPseudo, Pseudo("odd", 0, 0), Pseudo("even", 0, 0), Pseudo("n+b", 0, 1)}
    \cup {Pseudo("num", 0, b) : b \in 1..MaxCoef}
    \cup {Pseudo("an+b", a, b) : a \in 0..MaxCoef, b \in 0..MaxCoef}
    \cup {Pseudo(f, 0, 1) : f \in {"nth-child", "nth-last-child", "nth-last-of-type"}}
    \cup {Pseudo(f, 0, 0) : f \in {"first-child", "last-child"}}

\* The selectors a find tag may hold: li or ul li, the li with a pseudo-class.
Selectors ==
    {<<Segment("li", p)>> : p \in Pseudos}
    \cup {<<Segment("ul", NoPseudo), Segment("li", p)>> : p \in Pseudos}

\* The texts escaped for an XPath expression.
Texts == UNION {[1..k -> Chars] : k \in 0..MaxText}

\* The meta elements and the heads of the documents decoded.
Metas ==
    {MetaOther}
    \cup {MetaCharset(c) : c \in {"Shift_JIS", "euc-jp", "utf-8"}}
    \cup {MetaContentType(t) : t \in ContentTypes \ {""}}
Heads == UNION {[1..k -> Metas] : k \in 0..MaxMetas}

\* No helper called yet.
InitCalc ==
    /\ InitSession
    /\ backend = "http"
    /\ ~SaveToFile
    /\ ran = NoRun
    /\ rr = NoRR
    /\ twin = NoTwin
    /\ conc = NoConc
    /\ form = NoForm
    /\ dest = NoDest
    /\ calc = [fn |-> "new"]

\* What a call of a helper leaves alone: the session.
CalcFrame ==
    UNCHANGED <<backend, NotUseNetwork, SaveToFile, invokeCount, currentPage,
                pendingFormData, files, metas, browserPage, faults, last,
                ran, rr, twin, conc, form, dest>>

\* resolveNthOfType(cssSelector, n)
CallResolveNthOfType ==
    \E cssSelector \in Selectors, n \in 0..MaxWalk :
        /\ calc.fn = "new"
        /\ calc' = [fn |-> "resolveNthOfType", cssSelector |-> cssSelector, n |-> n,
                    out |-> resolveNthOfType(cssSelector, n)]
        /\ CalcFrame

\* scraper.ChromeUnmarshal of a struct, for a field Items []string whose find
\* tag is the selector: the selector reaches fillValue, which resolves it
\* for each element and inspects it no further.
CallChromeUnmarshalSlice ==
    \E cssSelector \in Selectors, found \in {l \in NodeLists : Len(l) <= 1} :
        /\ calc.fn = "new"
        /\ calc' = [fn |-> "ChromeUnmarshal", cssSelector |-> cssSelector,
                    found |-> found,
                    err |-> FillField("[]string", found, UnmarshalOption("", "", "")).err]
        /\ CalcFrame

\* escapeXPathText(text)
CallEscapeXPathText ==
    \E text \in Texts :
        /\ calc.fn = "new"
        /\ calc' = [fn |-> "escapeXPathText", text |-> text,
                    out |-> escapeXPathText(text)]
        /\ CalcFrame

\* Session.invoke of a request whose headers the caller has set or not.
CallInvokeHeader ==
    \E header \in [HeaderNames -> {"absent", "caller"}],
       UserAgent \in {"", "custom"}, notUseNetwork \in BOOLEAN :
        /\ calc.fn = "new"
        /\ calc' = [fn |-> "invoke", header |-> header, UserAgent |-> UserAgent,
                    NotUseNetwork |-> notUseNetwork,
                    sent |-> invokeHeader(header, UserAgent, notUseNetwork)]
        /\ CalcFrame

\* Response.PageOpt of a response; used is the encoding its body is decoded with.
CallPageOpt ==
    \E ContentType \in ContentTypes, head \in Heads,
       Encoding \in {"nil", "ShiftJIS", "EUCJP"} :
        /\ calc.fn = "new"
        /\ calc' = [fn |-> "PageOpt",
                    response |-> Response(ContentType, head, Encoding),
                    used |-> Body(PageOptEncoding(Response(ContentType, head, Encoding)))]
        /\ CalcFrame

NextCalc ==
    \/ CallResolveNthOfType
    \/ CallChromeUnmarshalSlice
    \/ CallEscapeXPathText
    \/ CallInvokeHeader
    \/ CallPageOpt

SpecCalc == InitCalc /\ [][NextCalc]_vars

\* ------------------------------------------------ following meta refreshes

\* The URLs fetched: plain pages, a refresh to a plain page, a refresh to
\* a refreshing page, a page refreshing to itself, a server that is down.
RefreshURLs == {"uA", "uB", "uH", "uLoop", "uDown"}

\* A new HTTP session; no page fetched yet.
InitRefresh ==
    /\ InitSession
    /\ backend = "http"
    /\ ran = NoRun
    /\ rr = NoRR
    /\ twin = NoTwin
    /\ conc = NoConc
    /\ form = NoForm
    /\ dest = NoDest
    /\ calc = [fn |-> "new"]

\* What is remembered of a call that left the session w: the URL and the
\* hops allowed, the mode, the counter before and after, the error and the
\* page returned.
Fetched(fn, url, k, w) ==
    [fn |-> fn, url |-> url, k |-> k, replay |-> NotUseNetwork,
     from |-> invokeCount, count |-> w.invokeCount, net |-> w.net,
     err |-> w.err, page |-> w.resp]

\* The call leaves the session w.
Fetch(fn, url, k, c, w) ==
    /\ Become(w)
    /\ last' = Outcome(c, World, w)
    /\ calc' = Fetched(fn, url, k, w)
    /\ faults' = IF c.disk # "ok" THEN faults + 1 ELSE faults
    /\ UNCHANGED <<ran, rr, twin, conc, form, dest>>

\* session.GetPageMaxRedirect(url, k) on a session whose counter is 0
CallGetPageMaxRedirect ==
    \E url \in RefreshURLs, k \in 0..MaxHops, d \in DiskOutcomes :
        /\ invokeCount = 0
        /\ d # "ok" => (SaveToFile /\ ~NotUseNetwork)
        /\ Fetch("GetPageMaxRedirect", url, k, Cmd("GetPageMaxRedirect", url, "", d),
                 GetPageMaxRedirect(Begin(World), url, k, d))

\* session.GetPage(url) on a session whose counter is 0
CallGetPage ==
    \E url \in RefreshURLs, d \in DiskOutcomes :
        /\ invokeCount = 0
        /\ d # "ok" => (SaveToFile /\ ~NotUseNetwork)
        /\ Fetch("GetPage", url, 1, Cmd("GetPage", url, "", d),
                 GetPage(Begin(World), url, d))

NextRefresh ==
    \/ CallGetPageMaxRedirect
    \/ CallGetPage
    \/ StartReplay

SpecRefresh == InitRefresh /\ [][NextRefresh]_vars

\* ------------------------------------------- properties of meta refreshes

\* The i-th URL of the chain of refreshes that starts at url.
RECURSIVE Hop(_, _)
Hop(url, i) ==
    IF i = 0 THEN url ELSE Doc(Serve(Hop(url, i - 1)).body).refresh

\* The page fetched last by a call: live, the answer to the request for the
\* last URL of the chain followed; in replay, the artifact of the last slot
\* consumed.
LastFetched ==
    IF calc.replay
    THEN [body |-> files[calc.count], url |-> metas[calc.count].url]
    ELSE [body |-> Serve(Hop(calc.url, calc.count - calc.from - 1)).body,
          url |-> Serve(Hop(calc.url, calc.count - calc.from - 1)).final]

\* C29: GetPageMaxRedirect(url, k) ends after at most k+1 requests, also on
\* a page that refreshes to itself, and GetPage after at most two; the page
\* returned is the current page and is the page fetched last.
C29_BoundedRefresh ==
    calc.fn \in {"GetPageMaxRedirect", "GetPage"} =>
        /\ calc.count - calc.from >= 1
        /\ calc.count - calc.from <= calc.k + 1
        /\ calc.fn = "GetPage" => calc.count - calc.from <= 2
        /\ ~calc.replay => calc.net = calc.count - calc.from
        /\ calc.err = NoErr =>
              /\ currentPage = calc.page
              /\ calc.page = LastFetched

\* GetPageMaxRedirect has followed the page that refreshes to itself as
\* often as it was allowed to and has returned it.
C29_Witness ==
    /\ calc.fn = "GetPageMaxRedirect"
    /\ calc.url = "uLoop"
    /\ calc.k = MaxHops
    /\ calc.err = NoErr
    /\ calc.count - calc.from = MaxHops + 1
    /\ currentPage.body = "pLoop"

\* ------------------------------------------- commands the page rejects

\* The commands tried: on forms and anchors that are there, that are not,
\* or of which there are several; with values a radio group offers or not.
ErrCommands ==
    {Cmd("Navigate", u, "", "ok") : u \in {"uA", "uG"}}
    \cup {Cmd("SendKeys", s, v, "ok") :
              s \in {"input[name=user]", "input[name=zip]", "input[name=color]"},
              v \in {"red", "blue"}}
    \cup {Cmd("SubmitForm", f, "nil", "ok") : f \in {"form", "form#second", "form#none"}}
    \cup {Cmd("Click", s, "", "ok") : s \in {"a#next", "a", "#go", "#go1", "#go2", "#none"}}
    \cup {Cmd("FollowAnchor", t, "", "ok") : t \in {"Next", "More", "Nope"}}

\* A new HTTP session.
InitErr ==
    /\ InitSession
    /\ backend = "http"
    /\ ran = NoRun
    /\ rr = NoRR
    /\ twin = NoTwin
    /\ conc = NoConc
    /\ form = NoForm
    /\ dest = NoDest
    /\ calc = NoCalc

ErrNavigate == \E c \in ErrCommands : c.op = "Navigate" /\ Step(c)
ErrSendKeys == \E c \in ErrCommands : c.op = "SendKeys" /\ Step(c)
ErrSubmitForm == \E c \in ErrCommands : c.op = "SubmitForm" /\ Step(c)
ErrClick == \E c \in ErrCommands : c.op = "Click" /\ Step(c)
ErrFollowAnchor == \E c \in ErrCommands : c.op = "FollowAnchor" /\ Step(c)

NextErr ==
    \/ ErrNavigate
    \/ ErrSendKeys
    \/ ErrSubmitForm
    \/ ErrClick
    \/ ErrFollowAnchor
    \/ StartReplay

SpecErr == InitErr /\ [][NextErr]_vars

\* The errors of a command the page rejects: a form or element that is not
\* there or not the only one, a field the form lacks, a value the field
\* does not offer, a number of anchors other than one.
PageErrors ==
    {"FormNotFound", "FormElementNotFound", "ValueNotAvailable", "CountMismatch",
     "SelectorNotFound"}

\* C30: an HTTP submit, click or follow-anchor that fails because the page
\* rejects it leaves the current page and the counter as they were, and
\* every command that would have succeeded before it succeeds after it.
C30_RejectedLeavesPage ==
    [][(last'.op \in {"SubmitForm", "Click", "FollowAnchor"} /\ last'.err \in PageErrors) =>
          /\ currentPage' = currentPage
          /\ invokeCount' = invokeCount
          /\ files' = files
          /\ \A c \in ErrCommands :
                 Do(World, c).err = NoErr => Do(World', c).err = NoErr]_vars

\* C31: Click on the HTTP backend follows the href of an anchor, and on a
\* submit control it submits the form that encloses the control, and no
\* other, with the pending form-field entries.
C31_ClickSubmitsEnclosing ==
    (backend = "http" /\ ~NotUseNetwork /\ currentPage # NoPage) =>
        \A c \in {k \in ErrCommands : k.op = "Click"} :
            /\ c.arg \in DOMAIN Doc(currentPage.body).href =>
                   /\ Do(World, c).err = NoErr
                   /\ Do(World, c).currentPage.url
                          = Serve(Doc(currentPage.body).href[c.arg]).final
            /\ ( /\ Enclosing(currentPage.body, c.arg) # NoURL
                 /\ DOMAIN pendingFormData \subseteq {"input[name=user]"} ) =>
                   /\ Do(World, c).err = NoErr
                   /\ Do(World, c).post.posted
                   /\ Do(World, c).currentPage.url
                          = Serve(Enclosing(currentPage.body, c.arg)).final
                   /\ \A k \in DOMAIN pendingFormData :
                          Do(World, c).post.fields["user"] = pendingFormData[k]

\* A submit has failed on a value the radio group does not offer, on a
\* page where following the anchor Next still succeeds.
C30_Witness ==
    /\ last.op = "SubmitForm"
    /\ last.err = "ValueNotAvailable"
    /\ currentPage.body = "pG"
    /\ pendingFormData = EmptyMap
    /\ Do(World, Cmd("FollowAnchor", "Next", "", "ok")).err = NoErr
    /\ Do(World, Cmd("SubmitForm", "form#second", "nil", "ok")).err = NoErr

\* ------------------------------------------------ properties of selectors

\* The pseudo-class the selector given to the helper ends in.
LastPseudo == calc.cssSelector[Len(calc.cssSelector)].pseudo

\* C21: under the browser extractor a sequence field whose find selector
\* uses :nth-child, :nth-last-child or :nth-last-of-type fails with an error
\* naming the pseudo-class; :first-child and :last-child are accepted.
C21_ForbiddenPseudo ==
    calc.fn = "ChromeUnmarshal" =>
        /\ LastPseudo.form \in {"nth-child", "nth-last-child", "nth-last-of-type"} =>
               calc.err = "Forbidden:" \o LastPseudo.form
        /\ LastPseudo.form \in {"first-child", "last-child"} => calc.err = NoErr

\* The position the rewrite is said to give at walk position i.
SaidPosition(p, i) ==
    CASE p.form = "odd" -> 2 * i + 1
      [] p.form = "even" -> 2 * i + 2
      [] p.form = "num" -> p.b
      [] p.form = "" -> i + 1
      [] p.form = "an+b" /\ p.a = 0 /\ p.b = 0 -> i + 1
      [] p.form = "an+b" /\ p.a \in {0, 1} -> p.b
      [] OTHER -> i * p.a + (IF p.b = 0 THEN p.a ELSE p.b)

\* The cases the rewrite law speaks of.
Said(p) ==
    \/ p.form \in {"odd", "even", "num", ""}
    \/ p.form = "an+b" /\ ~(p.a = 1 /\ p.b = 0)

\* C22: resolveNthOfType rewrites the last segment to :nth-of-type(x), x as
\* the rewrite law gives it for the walk position, and leaves the segments
\* before the last unchanged.
C22_RewriteLaw ==
    (calc.fn = "resolveNthOfType" /\ Said(LastPseudo)) =>
        LET k == Len(calc.cssSelector)
        IN  calc.out =
                [i \in 1..k |->
                    IF i < k THEN Positioned(calc.cssSelector[i], 0)
                    ELSE Positioned(Segment(calc.cssSelector[k].tag, NoPseudo),
                                    SaidPosition(LastPseudo, calc.n))]

\* ------------------------------------------------ properties of XPath text

\* The contents of the literals, one after the other.
RECURSIVE Contents(_, _)
Contents(args, i) ==
    IF i > Len(args) THEN <<>> ELSE args[i].s \o Contents(args, i + 1)

\* C24: escapeXPathText returns a single-quoted literal without a single
\* quote in it, a double-quoted literal without a double quote in it, or a
\* concat(...) of two or more such literals; the contents of the literals,
\* one after the other, are the input text.
C24_QuotedLiterals ==
    calc.fn = "escapeXPathText" =>
        /\ \A i \in 1..Len(calc.out.args) :
               /\ calc.out.args[i].q \in {"'", "\""}
               /\ ~Contains(calc.out.args[i].s, calc.out.args[i].q)
        /\ IF calc.out.concat THEN Len(calc.out.args) >= 2
                              ELSE Len(calc.out.args) = 1
        /\ Contents(calc.out.args, 1) = calc.text

\* A text with both quotes has been escaped to a concat of three literals or more.
C24_Witness ==
    /\ calc.fn = "escapeXPathText"
    /\ Contains(calc.text, "'")
    /\ Contains(calc.text, "\"")
    /\ calc.out.concat
    /\ Len(calc.out.args) >= 3

\* --------------------------------------------- properties of the headers

MetaDeclares(meta) ==
    CASE meta.kind = "charset" -> meta.value
      [] meta.kind = "http-equiv" -> charsetFromContentType(meta.value)
      [] OTHER -> ""

\* The known encodings the metas of a head declare.
Declared(head) ==
    {getEncodingFromCharset(MetaDeclares(head[i])) : i \in 1..Len(head)} \ {"nil"}

\* The encoding the Content-Type header of the response names.
HeaderEncoding(response) ==
    getEncodingFromCharset(charsetFromContentType(response.ContentType))

\* C26: the encoding a page is decoded with is the session's override if
\* set, otherwise the charset of the Content-Type header if it names a known
\* encoding, otherwise the charset declared in the meta tags.
C26_EncodingPriority ==
    calc.fn = "PageOpt" =>
        IF calc.response.Encoding # "nil" THEN calc.used = calc.response.Encoding
        ELSE IF HeaderEncoding(calc.response) # "nil"
        THEN calc.used = HeaderEncoding(calc.response)
        ELSE \/ calc.used \in Declared(calc.response.head)
             \/ Declared(calc.response.head) = {} /\ calc.used = "nil"

\* C26, as the code has it: the session's override if set, otherwise the
\* charset getCharsetFromHead reads from the head if it names a known
\* encoding, otherwise the charset of the Content-Type header if it names
\* one, otherwise the body is not decoded.
C26_HeadBeforeHeader ==
    calc.fn = "PageOpt" =>
        IF calc.response.Encoding # "nil" THEN calc.used = calc.response.Encoding
        ELSE IF getEncodingFromCharset(getCharsetFromHead(calc.response.head)) # "nil"
        THEN calc.used = getEncodingFromCharset(getCharsetFromHead(calc.response.head))
        ELSE calc.used = HeaderEncoding(calc.response)

\* A page without override whose head and Content-Type header name
\* different known encodings has been decoded.
C26_Witness ==
    /\ calc.fn = "PageOpt"
    /\ calc.response.Encoding = "nil"
    /\ HeaderEncoding(calc.response) # "nil"
    /\ getEncodingFromCharset(getCharsetFromHead(calc.response.head)) # "nil"
    /\ getEncodingFromCharset(getCharsetFromHead(calc.response.head))
           # HeaderEncoding(calc.response)
    /\ calc.used # HeaderEncoding(calc.response)

\* C27: a page whose meta tags declare a known charset, under a
\* Content-Type header naming a different known charset and no override, is
\* decoded with the meta-declared charset; an override is stronger than both.
C27_MetaOverHeader ==
    calc.fn = "PageOpt" =>
        /\ calc.response.Encoding # "nil" => calc.used = calc.response.Encoding
        /\ ( /\ calc.response.Encoding = "nil"
             /\ HeaderEncoding(calc.response) # "nil"
             /\ Cardinality(Declared(calc.response.head)) = 1
             /\ HeaderEncoding(calc.response) \notin Declared(calc.response.head) )
           => calc.used \in Declared(calc.response.head)

\* ------------------------------------------- properties of single commands

\* The commands of the unified action surface that C7 names.
ActionSurface == {"Navigate", "WaitVisible", "SendKeys", "Click", "SubmitForm"}

\* The most I/O steps a command can attempt: an HTTP navigation follows one
\* meta refresh, the browser's SubmitForm tries four selectors and Enter.
MaxSteps(op) ==
    IF backend = "http" /\ op = "Navigate" THEN 2
    ELSE IF backend = "chrome" /\ ~NotUseNetwork /\ op = "SubmitForm" THEN 5
    ELSE 1

FirstSlot == invokeCount - last.delta + 1

\* C3 as stated: in replay, a command whose artifact for its counter value
\* is missing (the body or the sidecar) fails with a retry-and-record error
\* that names the missing file, on both backends, without a network request.
C3_MissingArtifactFails ==
    (/\ NotUseNetwork /\ last.op \in IOOps /\ last.delta >= 1
     /\ (files[FirstSlot] = NoFile \/ metas[FirstSlot] = NoMeta)) =>
        /\ last.err = "RetryAndRecord"
        /\ last.errFile = IF files[FirstSlot] = NoFile THEN HtmlFile(FirstSlot)
                          ELSE MetaFile(FirstSlot)
        /\ last.net = 0

\* The HTTP command of operation op reached Session.invoke.
ReachesInvoke(op) ==
    \/ op \in {"Navigate", "Get"}
    \/ op \in {"Click", "SubmitForm", "FollowAnchor"} /\ invokeCount' > invokeCount

\* C3, amended: in replay no command sends a network request.  A command
\* that reaches Session.invoke or ChromeSession.SaveHtml while the body
\* <N>.html of its slot is missing fails with a retry-and-record error that
\* names <N>.html.  A missing sidecar fails the HTTP session the same way,
\* the error still naming <N>.html; the browser session tolerates it.  A
\* retry-and-record error always names the slot consumed last, whose
\* artifact is incomplete.
C3_MissingBodyFails ==
    [][(NotUseNetwork /\ last'.op # "StartReplay") =>
          LET n == NextSlot
              m == invokeCount'
          IN  /\ last'.net = 0
              /\ (backend = "http" /\ ReachesInvoke(last'.op)
                  /\ (files[n] = NoFile \/ metas[n] = NoMeta)) =>
                     (last'.err = "RetryAndRecord" /\ last'.errFile = HtmlFile(n))
              /\ (backend = "chrome" /\ last'.op \in ChromeIOOps) =>
                     IF files[n] = NoFile
                     THEN last'.err = "RetryAndRecord" /\ last'.errFile = HtmlFile(n)
                     ELSE last'.err # "RetryAndRecord"
              /\ last'.err = "RetryAndRecord" =>
                     /\ m > invokeCount
                     /\ last'.errFile = HtmlFile(m)
                     /\ \/ files[m] = NoFile
                        \/ backend = "http" /\ metas[m] = NoMeta]_vars

\* A replayed HTTP command met a slot whose body is there and whose sidecar
\* is not, and failed naming the body.
C3_Witness ==
    /\ NotUseNetwork /\ backend = "http"
    /\ last.err = "RetryAndRecord" /\ last.delta >= 1
    /\ files[invokeCount] # NoFile /\ metas[invokeCount] = NoMeta
    /\ last.errFile = HtmlFile(invokeCount)

\* The URL of the page the session is on.
PageURL == IF backend = "chrome" THEN browserPage.url ELSE currentPage.url

\* C4 as stated: after a successful live command with SaveToFile (and a
\* disk that never failed), the body <N>.html of its counter value exists,
\* its sidecar exists, and the sidecar's url is the final URL of the page.
C4_ArtifactComplete ==
    (/\ ~NotUseNetwork /\ SaveToFile /\ faults = 0
     /\ last.op \in IOOps /\ last.err = NoErr /\ last.delta >= 1) =>
        /\ files[invokeCount] # NoFile
        /\ metas[invokeCount] # NoMeta
        /\ last.op # "Get" => metas[invokeCount].url = PageURL

\* C5 as stated: when SubmitForm of the HTTP session has returned, with
\* success or with any error, the pending form data is empty.
C5_PendingCleared ==
    (backend = "http" /\ last.op = "SubmitForm") => pendingFormData = EmptyMap

C9_SleepFrame ==
    [][last'.op = "Sleep" =>
          /\ last'.err = NoErr
          /\ NotUseNetwork => last'.slept = 0
          /\ invokeCount' = invokeCount
          /\ currentPage' = currentPage
          /\ pendingFormData' = pendingFormData
          /\ browserPage' = browserPage
          /\ files' = files /\ metas' = metas
          /\ last'.net = 0 /\ last'.loaded = {} /\ last'.wrote = {}]_vars

\* Sleep ran in replay on a session with a page, pending data and a counter.
C9_Witness ==
    /\ NotUseNetwork /\ last.op = "Sleep" /\ last.slept = 0
    /\ currentPage # NoPage /\ pendingFormData # EmptyMap /\ invokeCount > 0


\* The errors of live I/O: the request, the browser action, the artifact write.
LiveIOErrors == {"RequestError", "ResponseError", "BrowserError", "WriteError"}

\* C28: on both backends a command increments the counter before it attempts
\* its network or browser I/O: a command whose live I/O failed still leaves
\* the counter incremented.
C28_CountedBeforeIO ==
    (~NotUseNetwork /\ last.op \in IOOps /\ last.err \in LiveIOErrors) =>
        last.delta >= 1


\* ------------------------------------------- the artifact store in replay

\* C36: in replay mode no command creates, overwrites or deletes a
\* recorded artifact: whatever command runs next, the bodies and the
\* metadata sidecars of the session directory stay as they are.
C36_ReplayKeepsArtifacts ==
    NotUseNetwork =>
        \A c \in Commands :
            Applicable(c) => /\ Do(World, c).files = files
                             /\ Do(World, c).metas = metas

\* --------------------------------------- pending entries and page changes

\* The commands that replace the current page without submitting a form.
PageChanges ==
    {c \in Commands : \/ c.op \in {"Navigate", "FollowAnchor"}
                      \/ c.op = "Click" /\ c.arg = "a#next"}

\* The submission SubmitForm(form, nil) makes after command c succeeded.
SubmitAfter(c, f) == Do(Do(World, c), Cmd("SubmitForm", f, "nil", "ok"))

\* C38: pending entries belong to the page they were entered on: after
\* Navigate, Click on an anchor or FollowAnchor replaced the current page,
\* SubmitForm(form, nil) sends no value that was pending before the change.
C38_PendingStaysWithPage ==
    (backend = "http" /\ pendingFormData # EmptyMap) =>
        \A c \in PageChanges, f \in FormSelectors :
            (c.disk = "ok" /\ Do(World, c).err = NoErr /\ SubmitAfter(c, f).post.posted) =>
                \A s \in DOMAIN pendingFormData :
                    LET name == extractNameFromSelector(s)
                    IN  ~(/\ name \in DOMAIN SubmitAfter(c, f).post.fields
                          /\ SubmitAfter(c, f).post.fields[name] = pendingFormData[s])


\* ------------------------------------------- ChromeSession.DownloadFile

\* How many downloads the browser starts.
MaxDownloads == 2

\* The names a download directory may hold, in the order os.ReadDir lists
\* them (sorted by file name); the glob of the call is *.csv.
DownloadNames == <<"a.csv", "b.csv", "c.txt">>
FileIds == 1..Len(DownloadNames)

\* filepath.Match(options.Glob, name)
MatchesGlob(id) == DownloadNames[id] \in {"a.csv", "b.csv"}

\* A file that is not in the directory; startTime; a file older than it.
Absent == -1
StartTime == 1
Older == 0

\* No value is waiting on the channel; the value "" of a canceled download.
NoSend == -1
CanceledSend == 0

\* What DownloadFile returned: the error, and the file it returned or the
\* file the error names.
Returned(err, id) == [err |-> err, file |-> IF id = 0 THEN "" ELSE DownloadNames[id]]

RECURSIVE ReplayScan(_, _)
\* The replay branch: the first file of the directory the glob matches.
ReplayScan(dir, id) ==
    IF id > Len(DownloadNames) THEN Returned("RetryAndRecord", 0)
    ELSE IF dir[id] # Absent /\ MatchesGlob(id) THEN Returned(NoErr, id)
    ELSE ReplayScan(dir, id + 1)

RECURSIVE TimeoutScan(_, _, _, _)
\* case <-downloadCtx.Done(): the loop over os.ReadDir(DownloadPath).  The
\* first file modified at or after startTime that the glob matches is
\* returned at once; of the other new files the one modified last is kept
\* for the error; without a new file the context's error is returned.
TimeoutScan(dir, id, latestTime, matchErr) ==
    IF id > Len(DownloadNames)
    THEN IF matchErr # 0 THEN Returned("DownloadGlobMismatch", matchErr)
         ELSE Returned("DeadlineExceeded", 0)
    ELSE IF dir[id] # Absent /\ ~(dir[id] < StartTime)
    THEN IF MatchesGlob(id) THEN Returned(NoErr, id)
         ELSE IF dir[id] > latestTime THEN TimeoutScan(dir, id + 1, dir[id], id)
         ELSE TimeoutScan(dir, id + 1, latestTime, matchErr)
    ELSE TimeoutScan(dir, id + 1, latestTime, matchErr)

\* case downloaded := <-download
Received(downloaded) ==
    IF downloaded = CanceledSend THEN Returned("DownloadCanceled", 0)
    ELSE IF ~MatchesGlob(downloaded) THEN Returned("DownloadGlobMismatch", downloaded)
    ELSE Returned(NoErr, downloaded)

\* A browser session on which DownloadFile has not been called.  In conc,
\* pc is where DownloadFile stands, dir the modification time of each file
\* of the download directory, seen the directory as the timeout branch
\* read it, now the clock, done whether downloadCtx is
\* done, cur the download the browser is busy with, suggested the
\* listener's suggestedFilename, blocked the value a listener callback is
\* waiting to send on the unbuffered channel, started the downloads begun,
\* first what happened first, the timeout or a final progress event, and
\* raced whether the select found both of its cases ready.
InitDownload ==
    /\ InitSession
    /\ backend = "chrome"
    /\ conc = [pc |-> "off"]
    /\ ran = NoRun
    /\ form = NoForm
    /\ dest = NoDest
    /\ calc = NoCalc
    /\ rr = NoRR
    /\ twin = NoTwin

\* What the steps of a download leave alone.
DownloadFrame ==
    UNCHANGED <<backend, NotUseNetwork, SaveToFile, invokeCount, currentPage,
                pendingFormData, files, metas, browserPage, faults, last,
                ran, rr, twin, form, dest, calc>>

\* The caller switches the session to replay before the download.
DownloadStartReplay == conc.pc = "off" /\ StartReplay

\* DownloadFile is called over a download directory of older files.  In
\* replay it returns from the directory; otherwise it makes the channel,
\* starts the timeout, takes startTime, registers the listener and runs
\* the trigger actions.
CallDownloadFile ==
    \E dir \in [FileIds -> {Absent, Older}] :
        /\ conc.pc = "off"
        /\ conc' = [pc |-> IF NotUseNetwork THEN "returned" ELSE "actions",
                    dir |-> dir, seen |-> dir, now |-> StartTime, done |-> FALSE, cur |-> 0,
                    suggested |-> 0, blocked |-> NoSend, started |-> 0,
                    first |-> [what |-> "none", file |-> 0], raced |-> FALSE,
                    result |-> IF NotUseNetwork THEN ReplayScan(dir, 1)
                               ELSE Returned("running", 0)]
        /\ DownloadFrame

\* The target's event loop calls the listener only while downloadCtx is
\* not done, and one event after the other: while a callback waits on the
\* channel the next event waits too.
Listening == conc.pc # "off" /\ ~conc.done
Dispatching == conc.pc \notin {"off"} /\ conc.result.err # "RetryAndRecord" /\ conc.blocked = NoSend

\* browser.EventDownloadWillBegin: the listener stores the suggested name.
DownloadWillBegin ==
    \E id \in FileIds :
        /\ Dispatching
        /\ ~NotUseNetwork
        /\ conc.cur = 0
        /\ conc.started < MaxDownloads
        /\ conc' = [conc EXCEPT !.cur = id, !.started = @ + 1,
                                !.suggested = IF Listening THEN id ELSE @]
        /\ DownloadFrame

\* What happened first.
First(what, id) ==
    IF conc.first.what = "none" /\ conc.pc \in {"actions", "select"}
    THEN [what |-> what, file |-> id] ELSE conc.first

\* browser.EventDownloadProgress with state Completed: the file is in the
\* directory, and the listener sends suggestedFilename on the channel.
DownloadCompleted ==
    /\ Dispatching
    /\ conc.cur # 0
    /\ conc' = [conc EXCEPT !.cur = 0,
                            !.dir[conc.cur] = conc.now,
                            !.now = @ + 1,
                            !.first = First("Completed", conc.cur),
                            !.blocked = IF Listening THEN conc.suggested ELSE @]
    /\ DownloadFrame

\* browser.EventDownloadProgress with state Canceled: the listener sends "".
DownloadCanceled ==
    /\ Dispatching
    /\ conc.cur # 0
    /\ conc' = [conc EXCEPT !.cur = 0,
                            !.first = First("Canceled", 0),
                            !.blocked = IF Listening THEN CanceledSend ELSE @]
    /\ DownloadFrame

\* options.Timeout elapses: downloadCtx is done.
DownloadTimeout ==
    /\ conc.pc \in {"actions", "select"}
    /\ ~conc.done
    /\ conc' = [conc EXCEPT !.done = TRUE, !.first = First("timeout", 0)]
    /\ DownloadFrame

\* chromedp.Run(ctxt, actions...) returns: without error or with
\* net::ERR_ABORTED the select follows; any other error is returned, and
\* the deferred cancel ends downloadCtx.
ActionsReturn ==
    \E err \in {"nil", "net::ERR_ABORTED", "other"} :
        /\ conc.pc = "actions"
        /\ conc' = IF err = "other"
                   THEN [conc EXCEPT !.pc = "returned", !.done = TRUE,
                                     !.result = Returned("ActionError", 0)]
                   ELSE [conc EXCEPT !.pc = "select"]
        /\ DownloadFrame

\* select, case <-downloadCtx.Done(): taken when the context is done, also
\* when a value waits on the channel as well.
SelectDone ==
    /\ conc.pc = "select"
    /\ conc.done
    /\ conc' = [conc EXCEPT !.pc = "returned",
                            !.raced = conc.blocked # NoSend,
                            !.seen = conc.dir,
                            !.result = TimeoutScan(conc.dir, 1, Older, 0)]
    /\ DownloadFrame

\* select, case downloaded := <-download: taken when a callback waits on
\* the channel, also when the context is done as well; the callback goes on.
SelectReceive ==
    /\ conc.pc = "select"
    /\ conc.blocked # NoSend
    /\ conc' = [conc EXCEPT !.pc = "received", !.blocked = NoSend,
                            !.raced = conc.done,
                            !.result = Received(conc.blocked)]
    /\ DownloadFrame

\* DownloadFile returns what it received; the deferred cancel ends
\* downloadCtx.
DownloadReturn ==
    /\ conc.pc = "received"
    /\ conc' = [conc EXCEPT !.pc = "returned", !.done = TRUE]
    /\ DownloadFrame

NextDownload ==
    \/ DownloadStartReplay
    \/ CallDownloadFile
    \/ DownloadWillBegin
    \/ DownloadCompleted
    \/ DownloadCanceled
    \/ DownloadTimeout
    \/ ActionsReturn
    \/ SelectDone
    \/ SelectReceive
    \/ DownloadReturn

SpecDownload == InitDownload /\ [][NextDownload]_vars

\* DownloadFile returned on the timeout.
TimedOut ==
    /\ conc.pc = "returned"
    /\ ~NotUseNetwork
    /\ conc.result.err # "ActionError"
    /\ conc.first.what = "timeout"

\* The files the glob matches that were modified at or after startTime.
NewMatching == {id \in FileIds : MatchesGlob(id) /\ conc.seen[id] >= StartTime}
NewOthers == {id \in FileIds : ~MatchesGlob(id) /\ conc.seen[id] >= StartTime}

\* The file of a set that was modified last.
Newest(ids) == CHOOSE id \in ids : \A other \in ids : conc.seen[other] <= conc.seen[id]

\* C33: a download that timed out without a completion event returns the
\* newest of the new files the glob matches; when the glob matches none of
\* the new files, the error names the new file modified last; without any
\* new file it returns the timeout error.
C33_TimeoutReturnsNewest ==
    TimedOut =>
        CASE NewMatching # {} -> conc.result = Returned(NoErr, Newest(NewMatching))
          [] NewOthers # {} -> conc.result = Returned("DownloadGlobMismatch", Newest(NewOthers))
          [] OTHER -> conc.result = Returned("DeadlineExceeded", 0)

\* C34: what DownloadFile returns is decided by what happened first, the
\* timeout or the first final progress event - a completed download whose
\* name the glob matches is returned, one it does not match is the glob
\* mismatch error, a canceled one the cancel error - whether the event
\* fired while the trigger actions ran or after they returned.
C34_FirstDecides ==
    (conc.pc = "returned" /\ ~NotUseNetwork /\ conc.result.err # "ActionError") =>
        CASE conc.first.what = "Completed" ->
                 IF MatchesGlob(conc.first.file)
                 THEN conc.result = Returned(NoErr, conc.first.file)
                 ELSE conc.result = Returned("DownloadGlobMismatch", conc.first.file)
          [] conc.first.what = "Canceled" -> conc.result.err = "DownloadCanceled"
          [] OTHER -> conc.result = TimeoutScan(conc.seen, 1, Older, 0)

\* C39: no listener callback waits forever on the channel: once
\* DownloadFile has returned, nothing receives any more, so no callback may
\* be waiting to send then.
C39_NoCallbackLeftBlocked ==
    (conc.pc = "returned" /\ ~NotUseNetwork) => conc.blocked = NoSend


\* --------------------------------- ChromeSession.SaveLastHtmlSnapshot

\* How long the clock runs, in seconds, how many instants of the clock one
\* second has, and how many snapshots a caller asks for.
MaxSeconds == 2
TicksPerSecond == 2
MaxSnapshots == 3

Seconds == 0..MaxSeconds

\* time.Now().Format("20060102-150405"): the instant, cut to its second.
Format(now) == now \div TicksPerSecond

\* ChromeSession.SaveLastHtmlSnapshot at the instant now, over the snapshot
\* files dir of the session directory: nothing is done without captured
\* HTML; otherwise snapshot-<timestamp>.html is written with os.WriteFile.
SaveLastHtmlSnapshot(lastHtml, dir, now, disk) ==
    IF lastHtml = "" THEN [err |-> NoErr, dir |-> dir, wrote |-> FALSE]
    ELSE IF disk = "bodyFail" THEN [err |-> "WriteError", dir |-> dir, wrote |-> FALSE]
    ELSE [err |-> NoErr, dir |-> [dir EXCEPT ![Format(now)] = lastHtml], wrote |-> TRUE]

\* A browser session that has captured no HTML, over a session directory
\* without snapshots.  In calc, lastHtml is ChromeSession.lastHtml, now the
\* clock, dir the snapshot file of each second, calls and written the
\* calls of SaveLastHtmlSnapshot and those of them that wrote, and html,
\* err and wrote the last call.
InitSnapshot ==
    /\ InitSession
    /\ backend = "chrome"
    /\ calc = [fn |-> "SaveLastHtmlSnapshot", lastHtml |-> "", now |-> 0,
               dir |-> [t \in Seconds |-> NoFile], calls |-> 0, written |-> 0,
               html |-> "", err |-> NoErr, wrote |-> FALSE]
    /\ ran = NoRun
    /\ form = NoForm
    /\ dest = NoDest
    /\ conc = NoConc
    /\ rr = NoRR
    /\ twin = NoTwin

\* ChromeSession.captureCurrentHtml: the page's outer HTML is kept when it
\* could be read; errors are ignored.
captureCurrentHtml ==
    \E html \in {"pA", "pB"} :
        /\ calc.lastHtml # html
        /\ calc' = [calc EXCEPT !.lastHtml = html]
        /\ CalcFrame

\* Time passes.
Tick ==
    /\ Format(calc.now + 1) \in Seconds
    /\ calc' = [calc EXCEPT !.now = @ + 1]
    /\ CalcFrame

\* The caller saves a snapshot.
CallSaveLastHtmlSnapshot ==
    \E disk \in {"ok", "bodyFail"} :
        /\ calc.calls < MaxSnapshots
        /\ LET r == SaveLastHtmlSnapshot(calc.lastHtml, calc.dir, calc.now, disk)
           IN  calc' = [calc EXCEPT !.dir = r.dir, !.calls = @ + 1,
                                    !.written = IF r.wrote THEN @ + 1 ELSE @,
                                    !.html = calc.lastHtml, !.err = r.err,
                                    !.wrote = r.wrote]
        /\ CalcFrame

NextSnapshot ==
    \/ captureCurrentHtml
    \/ Tick
    \/ CallSaveLastHtmlSnapshot

SpecSnapshot == InitSnapshot /\ [][NextSnapshot]_vars

\* C35: no snapshot overwrites an earlier one - the calls that wrote have
\* left as many files as there were such calls, also calls within one
\* second - and a call without captured HTML writes nothing and returns no
\* error.
C35_SnapshotsKept ==
    /\ Cardinality({t \in Seconds : calc.dir[t] # NoFile}) = calc.written
    /\ (calc.calls > 0 /\ calc.html = "") => (calc.err = NoErr /\ ~calc.wrote)

====
